---- MODULE Spec2Model ----
(***************************************************************************)
(* Model of librustc/traits/error_reporting/suggestions.rs: the obligation *)
(* cause-chain walker, the async/generator capture analyzer, the           *)
(* suggestion rules and the argument-count mismatch reporter.              *)
(*                                                                         *)
(* Text is modelled as a sequence of one-character strings, so that        *)
(* format!, join, starts_with, split_whitespace and byte slicing are       *)
(* computed, not assumed.                                                  *)
(***************************************************************************)
EXTENDS Integers, Sequences, FiniteSets, TLC

VARIABLES
    op,               \* the advisor entry point that was called last
    inp,              \* the arguments and collaborator answers of that call
    err,              \* the DiagnosticBuilder the call works on
    ret,              \* the value the call returned ("none" while running)
    pc,               \* "idle" | "walk" (inside note_obligation_cause_code) | "done"
    code,             \* cause_code of the current note_obligation_cause_code frame
    obligated_types,  \* the obligated_types vector threaded through the walk
    locals            \* local variables of a running loop (the capture analyzer's scan)

vars == <<op, inp, err, ret, pc, code, obligated_types, locals>>

(***************************************************************************)
(* Bounds of the model.                                                    *)
(***************************************************************************)
MaxChain == 3         \* derived links in a cause chain

MaxSnippet == 4       \* characters in the snippet of the obligation's span
MaxRefs == 3          \* reference levels of a subject type
MaxParams == 2        \* declared parameters of a callable
MaxReturns == 2       \* return expressions collected from a function body
MaxAsyncChain == 2    \* derived steps of a cause chain handed to the capture analyzer
MaxInterior == 2      \* entries of a generator's interior-type table
MaxArgs == 2          \* entries of an argument-shape list, fields of a tuple shape
MaxItems == 2         \* items enclosing the body, below the crate

NoLocals == [none |-> TRUE]

(***************************************************************************)
(* Text: a sequence of one-character strings.                              *)
(***************************************************************************)
RECURSIVE Join(_, _)
Join(texts, sep) ==
    IF Len(texts) = 0 THEN <<>>
    ELSE IF Len(texts) = 1 THEN texts[1]
    ELSE texts[1] \o sep \o Join(Tail(texts), sep)

is_whitespace(c) == c = " "

\* Length of the longest prefix of s whose characters are all in cs.
RECURSIVE PrefixLen(_, _)
PrefixLen(s, cs) ==
    IF Len(s) = 0 \/ s[1] \notin cs THEN 0 ELSE 1 + PrefixLen(Tail(s), cs)

starts_with(s, c) == Len(s) > 0 /\ s[1] = c

\* All texts of at most n characters over the alphabet cs.
Texts(cs, n) == UNION {[1..k -> cs] : k \in 0..n}

\* SourceMap::span_to_snippet: the text, or a failure.
SnippetOk(t) == [ok |-> TRUE, text |-> t]
SnippetErr == [ok |-> FALSE, text |-> <<>>]

\* SourceMap::span_take_while: the leading part of the span whose characters
\* satisfy the predicate (here: membership in cs).
span_take_while(sp, text, cs) == [base |-> sp, lo |-> 0, hi |-> PrefixLen(text, cs)]

(***************************************************************************)
(* Diagnostic: code, primary message, span labels, children (notes and     *)
(* helps) and suggestions.                                                 *)
(***************************************************************************)
struct_span_err(c, m, a) ==
    [code |-> c, message |-> [msg |-> m, args |-> a], labels |-> <<>>, children |-> <<>>,
     suggestions |-> <<>>]

note(e, m, a) ==
    [e EXCEPT !.children = Append(@, [kind |-> "note", msg |-> m, args |-> a])]

help(e, m, a) ==
    [e EXCEPT !.children = Append(@, [kind |-> "help", msg |-> m, args |-> a])]

span_label(e, sp, m, a) ==
    [e EXCEPT !.labels = Append(@, [span |-> sp, msg |-> m, args |-> a])]

span_suggestion(e, sp, m, a, text, appl) ==
    [e EXCEPT !.suggestions = Append(@,
        [msg |-> m, args |-> a, parts |-> <<[span |-> sp, text |-> text]>>,
         applicability |-> appl, style |-> "show"])]

span_suggestion_short(e, sp, m, a, text, appl) ==
    [e EXCEPT !.suggestions = Append(@,
        [msg |-> m, args |-> a, parts |-> <<[span |-> sp, text |-> text]>>,
         applicability |-> appl, style |-> "short"])]

multipart_suggestion(e, m, parts, appl) ==
    [e EXCEPT !.suggestions = Append(@,
        [msg |-> m, args |-> <<>>, parts |-> parts, applicability |-> appl,
         style |-> "show"])]

\* The diagnostic the type checker hands to the advisor (E0277, unsatisfied bound).
FreshDiagnostic == struct_span_err("E0277", "the trait bound is not satisfied", <<>>)

\* The same diagnostic after an earlier rule has attached a note and a suggestion.
UsedDiagnostic ==
    span_suggestion(note(FreshDiagnostic, "earlier note", <<>>),
                    "earlier_span", "earlier suggestion", <<>>, <<"x">>, "MaybeIncorrect")

Diagnostics == {FreshDiagnostic, UsedDiagnostic}

(***************************************************************************)
(* Obligation cause codes.                                                 *)
(***************************************************************************)
\* Subject types of the walker's chains; "?0" is an inference variable.
WalkTys == {"A", "B", "?0"}

TraitIds == {"Send"}

DerivedTags == {"BuiltinDerivedObligation", "ImplDerivedObligation"}

LeafCodes ==
    {[tag |-> "MiscObligation"], [tag |-> "SizedReturnType"], [tag |-> "VariableType"]}
    \cup {[tag |-> "ItemObligation", local |-> l] : l \in BOOLEAN}
    \cup {[tag |-> "BindingObligation", named |-> n, dummy_sp |-> d] :
            n \in BOOLEAN, d \in BOOLEAN}
    \cup {[tag |-> "RepeatVec", suggest |-> s] : s \in BOOLEAN}

IsDerived(c) == c.tag \in DerivedTags

DerivedObligation(t, d, ty, c) ==
    [tag |-> t, parent_trait_ref |-> [def_id |-> d, self_ty |-> ty], parent_code |-> c]

RECURSIVE CauseCodes(_, _)
CauseCodes(n, tys) ==
    IF n = 0 THEN LeafCodes
    ELSE LeafCodes \cup
         {DerivedObligation(t, d, ty, c) :
            t \in DerivedTags, d \in TraitIds, ty \in tys, c \in CauseCodes(n - 1, tys)}

\* The links of a chain, outermost first, the leaf last.
RECURSIVE Links(_)
Links(c) == IF IsDerived(c) THEN <<c>> \o Links(c.parent_code) ELSE <<c>>

(***************************************************************************)
(* Inference context and session.                                          *)
(***************************************************************************)
\* infcx.var0 is what "?0" has been resolved to ("?0" itself while unresolved).
resolve_vars_if_possible(infcx, ty) == IF ty = "?0" THEN infcx.var0 ELSE ty

(***************************************************************************)
(* note_obligation_cause_code                                              *)
(***************************************************************************)
\* One leaf variant's fixed rendering.
note_leaf(e, c, tcx) ==
    CASE c.tag \in {"MiscObligation"} -> e
      [] c.tag = "SizedReturnType" ->
            note(e, "the return type of a function must have a statically known size", <<>>)
      [] c.tag = "VariableType" ->
            LET e1 == note(e, "all local variables must have a statically known size", <<>>)
            IN  IF ~tcx.unsized_locals
                THEN help(e1, "unsized locals are gated as an unstable feature", <<>>)
                ELSE e1
      [] c.tag = "ItemObligation" ->
            IF c.local THEN span_label(e, "item_def_span", "required by", <<"item">>)
            ELSE note(e, "required by", <<"item">>)
      [] c.tag = "BindingObligation" ->
            LET e1 == IF c.named THEN span_label(e, "ident_span", "", <<>>) ELSE e
            IN  IF ~c.dummy_sp
                THEN span_label(e1, "bound_span", "required by this bound in", <<"item">>)
                ELSE note(e1, "required by this bound in", <<"item">>)
      [] c.tag = "RepeatVec" ->
            LET e1 == note(e, "the Copy trait is required because the repeated element will be copied", <<>>)
                e2 == note(e1, "this array initializer can be evaluated at compile-time", <<>>)
            IN  IF c.suggest
                THEN IF tcx.nightly
                     THEN help(e2, "add the const_in_array_repeat_expressions feature to the crate attributes", <<>>)
                     ELSE e2
                ELSE e1

\* Whether the walk has already explained the type the next cause is about.
is_recursive_obligation(infcx, types, cause_code) ==
    /\ IsDerived(cause_code)
    /\ \E i \in 1..Len(types) :
          types[i] = resolve_vars_if_possible(infcx, cause_code.parent_trait_ref.self_ty)

\* (mutation of parent_code_of: the recursion is handed the current cause again)
parent_code_of_same(data) == data

\* The cause the walker recurses into from a derived cause.
parent_code_of(data) == data.parent_code

\* (mutation of NoteBuiltinDerived: the parent type is not pushed)
NoteBuiltinDerived_NoPush ==
    LET ty == resolve_vars_if_possible(inp.infcx, code.parent_trait_ref.self_ty)
    IN  /\ code.tag = "BuiltinDerivedObligation"
        /\ err' = note(err, "required because it appears within the type", <<ty>>)
        /\ UNCHANGED obligated_types
        /\ IF ~is_recursive_obligation(inp.infcx, obligated_types, code.parent_code)
           THEN code' = parent_code_of(code) /\ pc' = "walk"
           ELSE code' = code /\ pc' = "done"

\* The BuiltinDerivedObligation arm: note, push, guarded recursion.
NoteBuiltinDerived ==
    LET ty == resolve_vars_if_possible(inp.infcx, code.parent_trait_ref.self_ty)
        types == Append(obligated_types, ty)
    IN  /\ code.tag = "BuiltinDerivedObligation"
        /\ err' = note(err, "required because it appears within the type", <<ty>>)
        /\ obligated_types' = types
        /\ IF ~is_recursive_obligation(inp.infcx, types, code.parent_code)
           THEN code' = parent_code_of(code) /\ pc' = "walk"
           ELSE code' = code /\ pc' = "done"

\* (mutation of NoteImplDerived: the arm recurses without a note)
NoteImplDerived_Silent ==
    /\ code.tag = "ImplDerivedObligation"
    /\ code' = parent_code_of(code)
    /\ pc' = "walk"
    /\ UNCHANGED <<err, obligated_types>>

\* The ImplDerivedObligation arm: note, unguarded recursion.
NoteImplDerived ==
    LET ty == resolve_vars_if_possible(inp.infcx, code.parent_trait_ref.self_ty)
    IN  /\ code.tag = "ImplDerivedObligation"
        /\ err' = note(err, "required because of the requirements on the impl of",
                       <<code.parent_trait_ref.def_id, ty>>)
        /\ code' = parent_code_of(code)
        /\ pc' = "walk"
        /\ UNCHANGED obligated_types

\* A leaf arm: its rendering, then return.
NoteLeaf ==
    /\ ~IsDerived(code)
    /\ err' = note_leaf(err, code, inp.tcx)
    /\ pc' = "done"
    /\ UNCHANGED <<code, obligated_types>>

\* One invocation of note_obligation_cause_code on the current cause.
NoteStep ==
    /\ pc = "walk"
    /\ (NoteBuiltinDerived \/ NoteImplDerived \/ NoteLeaf)
    /\ ret' = IF pc' = "done" THEN "unit" ELSE "none"
    /\ UNCHANGED <<op, inp, locals>>

\* The session flags are only read by the leaves that render them.
TcxFor(c) ==
    LET leaf == Links(c)[Len(Links(c))]
    IN  {[nightly |-> n, unsized_locals |-> u] :
            n \in (IF leaf.tag = "RepeatVec" THEN BOOLEAN ELSE {FALSE}),
            u \in (IF leaf.tag = "VariableType" THEN BOOLEAN ELSE {FALSE})}

\* "?0" is unresolved or resolved to "A"; it matters only to chains that mention it.
InfcxFor(c) ==
    IF \E i \in 1..Len(Links(c)) :
          IsDerived(Links(c)[i]) /\ Links(c)[i].parent_trait_ref.self_ty = "?0"
    THEN {[var0 |-> "?0"], [var0 |-> "A"]}
    ELSE {[var0 |-> "?0"]}

\* The type checker calls the walker on a failed obligation's cause; one call per
\* diagnostic (the advisor is call-and-return).
CallNoteObligationCauseCode ==
    /\ pc = "idle"
    /\ \E c \in CauseCodes(MaxChain, WalkTys) :
       \E tcx \in TcxFor(c), infcx \in InfcxFor(c) :
          /\ op' = "note_obligation_cause_code"
          /\ inp' = [cause_code |-> c, tcx |-> tcx, infcx |-> infcx]
          /\ code' = c
          /\ obligated_types' = <<>>
          /\ err' = FreshDiagnostic
          /\ ret' = "none"
          /\ pc' = "walk"
          /\ UNCHANGED locals

Init ==
    /\ op = "init"
    /\ inp = [cause_code |-> [tag |-> "MiscObligation"]]
    /\ err = FreshDiagnostic
    /\ ret = "none"
    /\ pc = "idle"
    /\ code = [tag |-> "MiscObligation"]
    /\ obligated_types = <<>>
    /\ locals = NoLocals

WalkNext == CallNoteObligationCauseCode \/ NoteStep

WalkSpec == Init /\ [][WalkNext]_vars

\* A call that has started runs to its return: the walker is synchronous.
WalkFairSpec == WalkSpec /\ WF_vars(NoteStep)

(***************************************************************************)
(* Types of the reference rules.                                           *)
(***************************************************************************)
Adt(n) == [kind |-> "Adt", name |-> n]

mk_ref(m, t) == [kind |-> "Ref", mutbl |-> m, ty |-> t]

\* T, &T, &&T, ... up to n reference levels.
RECURSIVE RefTys(_)
RefTys(n) ==
    IF n = 0 THEN {Adt("T")} ELSE RefTys(n - 1) \cup {mk_ref("Not", t) : t \in RefTys(n - 1)}

\* The types obtained by peeling 1, 2, ... reference levels off ty.
RECURSIVE Peels(_)
Peels(ty) == IF ty.kind = "Ref" THEN {ty.ty} \cup Peels(ty.ty) ELSE {}

\* The solver's answer for `ty: Trait`, for the trait of the failing obligation.
predicate_may_hold(solver, ty) == ty \in solver.may_hold

(***************************************************************************)
(* suggest_remove_reference                                                *)
(***************************************************************************)
SnippetChars == {"&", " ", "'", "x"}

NonWhitespace(text) == SelectSeq(text, LAMBDA c : ~is_whitespace(c))

\* snippet.chars().filter(!whitespace).take_while(== '&').count()
refs_number_of(snippet) == PrefixLen(NonWhitespace(snippet), {"&"})

\* snippet.chars().filter(!whitespace).skip(refs_number).next() == Some('\'')
lifetime_follows(snippet, refs_number) ==
    /\ Len(NonWhitespace(snippet)) > refs_number
    /\ NonWhitespace(snippet)[refs_number + 1] = "'"

\* (mutation of remove_refs_of: the count of the iteration, not that count plus one)
remove_refs_of_index(refs_remaining) == refs_remaining

\* let remove_refs = refs_remaining + 1;
remove_refs_of(refs_remaining) == refs_remaining + 1

\* for refs_remaining in 0..refs_number { ... }
RECURSIVE remove_reference_loop(_, _, _, _, _, _)
remove_reference_loop(e, trait_type, refs_remaining, refs_number, snippet, solver) ==
    IF refs_remaining >= refs_number THEN e
    ELSE IF trait_type.kind = "Ref"
    THEN IF predicate_may_hold(solver, trait_type.ty)
         THEN span_suggestion_short(
                  e, span_take_while("cause_span", snippet, {" ", "&"}),
                  "consider removing leading &-references",
                  <<remove_refs_of(refs_remaining)>>, <<>>, "MachineApplicable")
         ELSE remove_reference_loop(e, trait_type.ty, refs_remaining + 1, refs_number,
                                    snippet, solver)
    ELSE e

suggest_remove_reference(e, snippet, self_ty, solver) ==
    IF ~snippet.ok THEN e
    ELSE LET refs_number == refs_number_of(snippet.text)
         IN  IF lifetime_follows(snippet.text, refs_number) THEN e
             ELSE remove_reference_loop(e, self_ty, 0, refs_number, snippet.text, solver)

\* An atomic advisor call: nothing of the walker moves.
Returned(name, args, e, r) ==
    /\ op' = name
    /\ inp' = args
    /\ err' = e
    /\ ret' = r
    /\ pc' = "done"
    /\ UNCHANGED <<code, obligated_types, locals>>

SuggestRemoveReference ==
    /\ pc = "idle"
    /\ \E e0 \in Diagnostics, self_ty \in RefTys(MaxRefs),
          snippet \in {SnippetErr} \cup {SnippetOk(t) : t \in Texts(SnippetChars, MaxSnippet)} :
         \E may_hold \in SUBSET Peels(self_ty) :
            LET solver == [may_hold |-> may_hold]
            IN  Returned("suggest_remove_reference",
                         [err0 |-> e0, self_ty |-> self_ty, snippet |-> snippet,
                          solver |-> solver],
                         suggest_remove_reference(e0, snippet, self_ty, solver), "unit")

(***************************************************************************)
(* suggest_fn_call and get_closure_name                                    *)
(***************************************************************************)
EvaluationResults ==
    {"EvaluatedToOk", "EvaluatedToOkModuloRegions", "EvaluatedToAmbig",
     "EvaluatedToUnknown", "EvaluatedToRecur", "EvaluatedToErr", "Overflow"}

\* Patterns of a `let` that binds a closure.
LetPats ==
    {[kind |-> "Binding", annotation |-> a, name |-> <<"f">>, sub |-> s] :
        a \in {"Unannotated", "Mutable"}, s \in BOOLEAN}
    \cup {[kind |-> "Tuple", annotation |-> "Unannotated", name |-> <<>>, sub |-> FALSE]}

\* Patterns of a function's parameters.
ParamPats ==
    {[kind |-> "Binding", name |-> n, sub |-> FALSE] :
        n \in {<<"a">>, <<"b">>, <<"s", "e", "l", "f">>}}
    \cup {[kind |-> "Binding", name |-> <<"a">>, sub |-> TRUE],
          [kind |-> "Wild", name |-> <<>>, sub |-> FALSE]}

\* All sequences of at most n elements of S.
SeqsUpTo(S, n) == UNION {[1..k -> S] : k \in 0..n}

\* What hir.get_if_local(def_id) can answer for a closure type.
ClosureNodes ==
    {[node |-> "Closure", inputs |-> n, parent |-> p, pat |-> pat] :
        n \in 0..MaxParams, p \in {"Stmt", "Local", "Expr"}, pat \in LetPats}
    \cup {[node |-> "None"]}

\* What hir.get_if_local(def_id) can answer for a function type.
FnNodes ==
    {[node |-> "Fn", ident |-> <<"f", "o", "o">>, params |-> ps] :
        ps \in SeqsUpTo(ParamPats, MaxParams)}
    \cup {[node |-> "ImplItem"], [node |-> "None"]}

\* get_name: the local name of the closure, or a note and no name.
get_name(e, pat, m) ==
    IF pat.kind = "Binding" /\ pat.annotation = "Unannotated" /\ ~pat.sub
    THEN [err |-> e, name |-> pat.name, some |-> TRUE]
    ELSE [err |-> note(e, m.msg, m.args), name |-> <<>>, some |-> FALSE]

get_closure_name(e, node, m) ==
    IF node.parent \in {"Stmt", "Local"}
    THEN get_name(e, node.pat, m)
    ELSE [err |-> e, name |-> <<>>, some |-> FALSE]

\* decl.inputs.iter().map(|_| "_")
closure_args(n) == [i \in 1..n |-> <<"_">>]

\* (mutation of fn_arg: `self` is rendered like any other binding)
fn_arg_any_binding(pat) ==
    IF pat.kind = "Binding" /\ ~pat.sub THEN pat.name ELSE <<"_">>

\* One parameter of a named function as rendered in the suggested call.
fn_arg(pat) ==
    IF pat.kind = "Binding" /\ ~pat.sub /\ pat.name # <<"s", "e", "l", "f">>
    THEN pat.name
    ELSE <<"_">>

\* format!("{}({})", name, args.join(", "))
call_text(name, args) == name \o <<"(">> \o Join(args, <<",", " ">>) \o <<")">>

\* The tail of suggest_fn_call: the suggestion or the help.
attach_call(e, m, snippet, points_at_arg) ==
    IF points_at_arg
    THEN span_suggestion(e, "cause_span", m.msg, m.args, snippet, "HasPlaceholders")
    ELSE help(e, m.msg, m.args \o <<snippet>>)

suggest_fn_call(e, self_kind, eval, node, points_at_arg) ==
    IF self_kind \notin {"Closure", "FnDef"} THEN e
    ELSE
    LET callable == IF self_kind = "Closure" THEN "closure" ELSE "function"
        m == [msg |-> "use parentheses to call the", args |-> <<callable>>]
    IN  IF eval \notin {"EvaluatedToOk", "EvaluatedToOkModuloRegions", "EvaluatedToAmbig"}
        THEN e
        ELSE CASE node.node = "Closure" ->
                    LET e1 == span_label(e, "closure_span", "consider calling this closure", <<>>)
                        got == get_closure_name(e1, node, m)
                    IN  IF ~got.some THEN got.err
                        ELSE attach_call(got.err, m,
                                         call_text(got.name, closure_args(node.inputs)),
                                         points_at_arg)
               [] node.node = "Fn" ->
                    LET e1 == span_label(e, "ident_span", "consider calling this function", <<>>)
                        args == [i \in 1..Len(node.params) |-> fn_arg(node.params[i])]
                    IN  attach_call(e1, m, call_text(node.ident, args), points_at_arg)
               [] OTHER -> e

SuggestFnCall ==
    /\ pc = "idle"
    /\ \E e0 \in Diagnostics, self_kind \in {"Closure", "FnDef", "Adt"} :
         \E eval \in (IF self_kind = "Adt" THEN {"EvaluatedToErr"} ELSE EvaluationResults),
            points_at_arg \in BOOLEAN :
         \E node \in (IF self_kind = "Closure" THEN ClosureNodes
                       ELSE IF self_kind = "FnDef" THEN FnNodes ELSE {[node |-> "None"]}) :
            Returned("suggest_fn_call",
                     [err0 |-> e0, self_kind |-> self_kind, eval |-> eval, node |-> node,
                      points_at_arg |-> points_at_arg],
                     suggest_fn_call(e0, self_kind, eval, node, points_at_arg), "unit")

(***************************************************************************)
(* suggest_impl_trait and ReturnsVisitor                                   *)
(***************************************************************************)
\* ObligationCauseCode::peel_derives, on chains of builtin-derived steps.
RECURSIVE peel_derives(_)
peel_derives(c) ==
    IF c.tag = "BuiltinDerivedObligation" THEN peel_derives(c.parent_code) ELSE c

\* A returned expression: its inferred type in the in-progress tables ("none"
\* when node_type_opt has no entry) and what span_to_snippet answers for its span.
Exprs ==
    {[ty |-> "W", text |-> SnippetOk(<<"a">>)], [ty |-> "V", text |-> SnippetOk(<<"b">>)],
     [ty |-> "none", text |-> SnippetOk(<<"c">>)], [ty |-> "V", text |-> SnippetErr]}

\* A function body: whether it is a generator body, whether its value is an
\* unlabelled block, the block's tail expression (none or one), and the operands
\* of the `return` expressions that walk_body meets, in order.
Bodies ==
    {[generator |-> FALSE, block |-> TRUE, tail |-> t, rets |-> rs] :
        t \in SeqsUpTo(Exprs, 1), rs \in SeqsUpTo(Exprs, MaxReturns - 1)}
    \cup {[generator |-> g, block |-> b, tail |-> <<[ty |-> "W", text |-> SnippetOk(<<"a">>)]>>,
           rets |-> <<[ty |-> "V", text |-> SnippetOk(<<"b">>)]>>] :
            g \in BOOLEAN, b \in BOOLEAN}

\* ReturnsVisitor::visit_body followed by visit_expr on every expression.
ReturnsVisitor(body) ==
    (IF ~body.generator /\ body.block THEN body.tail ELSE <<>>) \o body.rets

DynT == <<"d", "y", "n", " ", "T">>

\* The declared return type: its hir kind, whether its span overlaps the error
\* span, its source text and its type in the tables.
GoodRetTy == [kind |-> "TraitObject", overlaps |-> TRUE, snippet |-> SnippetOk(DynT),
              node_type |-> "Dynamic"]

\* A declared return type that is a path, as in `fn f() -> A`.
PathRetTy == [kind |-> "Path", overlaps |-> TRUE, snippet |-> SnippetOk(<<"A">>),
              node_type |-> "Other"]

RetTys ==
    {[GoodRetTy EXCEPT !.snippet = sn, !.node_type = nt] :
        sn \in {SnippetOk(DynT), SnippetOk(<<"T">>), SnippetOk(<<"d", "y", "n", " ", " ", "T">>)},
        nt \in {"Dynamic", "Other", "none"}}
    \cup {PathRetTy, [GoodRetTy EXCEPT !.overlaps = FALSE, !.snippet = SnippetOk(<<"T">>)],
          [GoodRetTy EXCEPT !.snippet = SnippetErr]}

Solvers == {[may_hold |-> {"W", "V"}], [may_hold |-> {"W"}], [may_hold |-> {}]}

\* str::split_whitespace().next()
RECURSIVE first_word(_)
first_word(text) ==
    IF Len(text) = 0 THEN <<>>
    ELSE IF is_whitespace(text[1])
    THEN first_word(Tail(text))
    ELSE LET k == PrefixLen(text, {c \in {text[i] : i \in 1..Len(text)} : ~is_whitespace(c)})
         IN  SubSeq(text, 1, k)

has_dyn_of(snippet) == first_word(snippet) = <<"d", "y", "n">>

\* (mutation of trait_obj_of: the `dyn ` prefix is kept)
trait_obj_of_whole(snippet) == snippet

\* if has_dyn { &snippet[4..] } else { &snippet[..] }
trait_obj_of(snippet) ==
    IF has_dyn_of(snippet) THEN SubSeq(snippet, 5, Len(snippet)) ELSE snippet

\* (mutation of ret_types_of: expressions without an inferred type are kept)
ret_types_of_unfiltered(exprs) == [i \in 1..Len(exprs) |-> exprs[i].ty]

\* visitor.0.iter().filter_map(|expr| tables.node_type_opt(expr.hir_id))
ret_types_of(exprs) ==
    LET typed == SelectSeq(exprs, LAMBDA x : x.ty # "none")
    IN  [i \in 1..Len(typed) |-> typed[i].ty]

\* The fold over ret_types: (last_ty, all_returns_have_same_type).
RECURSIVE fold_ret_types(_, _)
fold_ret_types(acc, tys) ==
    IF Len(tys) = 0 THEN acc
    ELSE fold_ret_types(
             [last_ty |-> tys[1],
              same |-> acc.same /\ (acc.last_ty = "none" \/ acc.last_ty = tys[1])],
             Tail(tys))

all_returns_conform_to_trait(ret_ty, tys, solver) ==
    IF ret_ty.node_type = "Dynamic"
    THEN \A i \in 1..Len(tys) : predicate_may_hold(solver, tys[i])
    ELSE TRUE
\* The self type of the failing trait reference: a trait object (with or without
\* a principal trait, whose object_safety_violations may be non-empty) or not.
DynTys ==
    {[kind |-> "Dynamic", principal |-> "T", violations |-> FALSE],
     [kind |-> "Dynamic", principal |-> "T", violations |-> TRUE],
     [kind |-> "Dynamic", principal |-> "none", violations |-> FALSE]}

\* principal_def_id().map_or(true, |def_id| object_safety_violations(..).is_empty())
is_object_safe_of(ty) == ty.principal = "none" \/ ~ty.violations

\* The boxed branch: one part per collected expression, then the return type.
boxed_parts(visitor, snippet) ==
    [i \in 1..Len(visitor) |->
        [span |-> <<"expr", i>>, text |-> <<"Box::new(">> \o visitor[i].text.text \o <<")">>]]
    \o <<[span |-> "ret_ty",
          text |-> <<"Box<">> \o (IF has_dyn_of(snippet) THEN <<>> ELSE <<"d", "y", "n", " ">>)
                   \o snippet \o <<">">>]>>

\* Lines 707-714.
closing_notes(e, trait_obj) ==
    note(note(note(note(e, "for information on trait objects, see", <<>>),
                   "if all the returned values were of the same type you could use impl",
                   <<trait_obj>>),
              "for information on impl Trait, see", <<>>),
         "you can create a new enum with a variant for each returned type", <<>>)

\* Lines 648-716, once every guard has passed.
expand_impl_trait(e, i, visitor, last_ty, same) ==
    LET snippet == i.ret_ty.snippet.text
        trait_obj == trait_obj_of(snippet)
        e1 == [e EXCEPT !.code = "E0746",
                        !.message = [msg |-> "return type cannot have an unboxed trait object",
                                     args |-> <<>>],
                        !.children = <<>>]
    IN  IF same
        THEN [err |-> note(span_suggestion(
                               e1, "ret_ty",
                               "return impl instead, as all return paths are of type, which implements",
                               <<last_ty, trait_obj>>, <<"impl ">> \o trait_obj,
                               "MachineApplicable"),
                           "for information on impl Trait, see", <<>>),
              ret |-> "true"]
        ELSE IF is_object_safe_of(i.self_ty)
        THEN IF \E k \in 1..Len(visitor) : ~visitor[k].text.ok
             THEN [err |-> e1, ret |-> "abort"]      \* span_to_snippet(..).unwrap()
             ELSE [err |-> closing_notes(
                               multipart_suggestion(e1, "return a boxed trait object instead",
                                                    boxed_parts(visitor, snippet),
                                                    "MaybeIncorrect"),
                               trait_obj),
                   ret |-> "true"]
        ELSE [err |-> closing_notes(
                          note(e1, "if trait was object safe, you could return a trait object",
                               <<trait_obj>>),
                          trait_obj),
              ret |-> "true"]

\* (mutation of suggest_impl_trait: the children attached before the call are
\* kept in front of the rule's own)
suggest_impl_trait_keeping_children(e, i) ==
    LET visitor == ReturnsVisitor(i.body)
        tys == ret_types_of(visitor)
        folded == fold_ret_types([last_ty |-> "none", same |-> TRUE], tys)
    IN  IF /\ peel_derives(i.cause).tag = "SizedReturnType" /\ i.node = "ItemFn"
           /\ i.self_ty.kind = "Dynamic" /\ i.output = "Return"
           /\ i.ret_ty.overlaps /\ i.ret_ty.kind = "TraitObject" /\ i.ret_ty.snippet.ok
           /\ all_returns_conform_to_trait(i.ret_ty, tys, i.solver)
           /\ folded.last_ty # "none"
        THEN LET r == expand_impl_trait(e, i, visitor, folded.last_ty, folded.same)
             IN  [r EXCEPT !.err.children = e.children \o @]
        ELSE [err |-> e, ret |-> "false"]

suggest_impl_trait(e, i) ==
    LET declined == [err |-> e, ret |-> "false"]
    IN  IF peel_derives(i.cause).tag # "SizedReturnType" THEN declined
        ELSE IF i.node # "ItemFn" THEN declined
        ELSE IF i.self_ty.kind # "Dynamic" THEN declined
        ELSE IF i.output # "Return" THEN declined
        ELSE
        LET visitor == ReturnsVisitor(i.body)
            tys == ret_types_of(visitor)
            folded == fold_ret_types([last_ty |-> "none", same |-> TRUE], tys)
        IN  IF /\ i.ret_ty.overlaps
               /\ i.ret_ty.kind = "TraitObject"
               /\ i.ret_ty.snippet.ok
               /\ all_returns_conform_to_trait(i.ret_ty, tys, i.solver)
               /\ folded.last_ty # "none"
            THEN expand_impl_trait(e, i, visitor, folded.last_ty, folded.same)
            ELSE declined

TypicalBodies ==
    {[generator |-> FALSE, block |-> TRUE, tail |-> <<[ty |-> "W", text |-> SnippetOk(<<"a">>)]>>,
      rets |-> <<x>>] :
        x \in {[ty |-> "W", text |-> SnippetOk(<<"a">>)], [ty |-> "V", text |-> SnippetOk(<<"b">>)]}}

TypicalImplTrait(b) ==
    [cause |-> [tag |-> "SizedReturnType"], node |-> "ItemFn", self_ty |-> [kind |-> "Dynamic", principal |-> "T", violations |-> FALSE],
     output |-> "Return", ret_ty |-> GoodRetTy, body |-> b, solver |-> [may_hold |-> {"W", "V"}]]

\* The inputs of suggest_impl_trait: every combination of the inputs the branches
\* after the guards read, and for each guard the inputs that fail it.
ImplTraitInputs ==
    {[TypicalImplTrait(b) EXCEPT !.self_ty = t, !.ret_ty = rt, !.solver = sv] :
        b \in Bodies, t \in DynTys, rt \in RetTys, sv \in Solvers}
    \cup {[TypicalImplTrait(b) EXCEPT !.cause = c] :
            b \in TypicalBodies,
            c \in {[tag |-> "MiscObligation"], [tag |-> "VariableType"],
                   DerivedObligation("BuiltinDerivedObligation", "Send", "A",
                                     [tag |-> "SizedReturnType"])}}
    \cup {[TypicalImplTrait(b) EXCEPT !.node = n] :
            b \in TypicalBodies, n \in {"ImplItem", "TraitItem", "Expr"}}
    \cup {[TypicalImplTrait(b) EXCEPT !.self_ty = [kind |-> "Str"], !.ret_ty = PathRetTy] :
            b \in TypicalBodies}
    \cup {[TypicalImplTrait(b) EXCEPT !.output = "DefaultReturn"] : b \in TypicalBodies}

SuggestImplTrait ==
    /\ pc = "idle"
    /\ \E e \in Diagnostics, i \in ImplTraitInputs :
         LET r == suggest_impl_trait(e, i)
         IN  Returned("suggest_impl_trait", i @@ [err0 |-> e],
                      r.err, r.ret)

(***************************************************************************)
(* suggest_add_reference_to_arg                                            *)
(***************************************************************************)
\* Ty::to_string, on the types of the reference rules.
RECURSIVE ty_to_string(_)
ty_to_string(ty) ==
    IF ty.kind = "Ref"
    THEN (IF ty.mutbl = "Mut" THEN <<"&", "mut", " ">> ELSE <<"&">>) \o ty_to_string(ty.ty)
    ELSE <<ty.name>>

\* (mutation of suggest_add_reference_to_arg: the custom-message case is ignored
\* and a literal borrow is not told apart)
suggest_add_reference_to_arg_always(e, i) ==
    IF i.points_at_arg /\ i.cause.tag = "ImplDerivedObligation" /\ i.must_hold /\ i.snippet.ok
    THEN [err |-> span_suggestion(
                      span_label([e EXCEPT !.message =
                                       [msg |-> "the trait bound is not satisfied",
                                        args |-> ty_to_string(i.self_ty)
                                                 \o <<i.cause.parent_trait_ref.def_id>>]],
                                 "cause_span", "expected an implementor of trait",
                                 <<i.cause.parent_trait_ref.def_id>>),
                      "cause_span", "consider borrowing here", <<>>,
                      <<"&">> \o i.snippet.text, "MaybeIncorrect"),
          ret |-> "true"]
    ELSE [err |-> e, ret |-> "false"]

\* i: points_at_arg, has_custom_message, the cause code, the failing self type,
\* the snippet of the cause span, and the solver's answer (must_hold) to
\* `&'static self_ty: ParentTrait`.
suggest_add_reference_to_arg(e, i) ==
    IF ~i.points_at_arg THEN [err |-> e, ret |-> "false"]
    ELSE IF i.cause.tag = "ImplDerivedObligation" /\ i.must_hold /\ i.snippet.ok
    THEN LET parent == i.cause.parent_trait_ref.def_id
             found == ty_to_string(i.self_ty)
             e1 == IF i.has_custom_message
                   THEN note(e, "the trait bound is not satisfied", found \o <<parent>>)
                   ELSE [e EXCEPT !.message = [msg |-> "the trait bound is not satisfied",
                                               args |-> found \o <<parent>>]]
         IN  IF starts_with(i.snippet.text, "&")
             THEN [err |-> e1, ret |-> "false"]
             ELSE [err |-> span_suggestion(
                               span_label(e1, "cause_span",
                                          "expected an implementor of trait", <<parent>>),
                               "cause_span", "consider borrowing here", <<>>,
                               <<"&">> \o i.snippet.text, "MaybeIncorrect"),
                   ret |-> "true"]
    ELSE [err |-> e, ret |-> "false"]

SuggestAddReferenceToArg ==
    /\ pc = "idle"
    /\ \E points_at_arg \in BOOLEAN, must_hold \in BOOLEAN,
          cause \in {[tag |-> "MiscObligation"],
                     DerivedObligation("BuiltinDerivedObligation", "Send", "A",
                                       [tag |-> "MiscObligation"]),
                     DerivedObligation("ImplDerivedObligation", "Send", "A",
                                       [tag |-> "MiscObligation"]),
                     DerivedObligation("ImplDerivedObligation", "Send", "A",
                                       DerivedObligation("ImplDerivedObligation", "Sync", "B",
                                                         [tag |-> "MiscObligation"]))} :
         \E snippet \in IF points_at_arg /\ must_hold /\ cause.tag = "ImplDerivedObligation"
                            /\ ~IsDerived(cause.parent_code)
                         THEN {SnippetErr} \cup {SnippetOk(t) : t \in Texts(SnippetChars, MaxSnippet)}
                         ELSE {SnippetErr, SnippetOk(<<"x">>), SnippetOk(<<"&", "x">>)},
            e0 \in Diagnostics, has_custom_message \in BOOLEAN,
            self_ty \in RefTys(1) :
            \E may_hold \in SUBSET Peels(self_ty) :
               LET i == [points_at_arg |-> points_at_arg,
                         has_custom_message |-> has_custom_message,
                         cause |-> cause, self_ty |-> self_ty, snippet |-> snippet,
                         must_hold |-> must_hold, solver |-> [may_hold |-> may_hold]]
                   r == suggest_add_reference_to_arg(e0, i)
               IN  Returned("suggest_add_reference_to_arg", i @@ [err0 |-> e0], r.err, r.ret)

(***************************************************************************)
(* suggest_change_mut                                                      *)
(***************************************************************************)
\* (mutation of suggest_change_mut: the edit is offered for any reference
\* pointing at an argument, whatever its mutability and its snippet)
suggest_change_mut_any_borrow(e, i) ==
    IF ~i.snippet.ok \/ i.has_infer_types \/ i.self_ty.kind # "Ref" \/ ~i.must_apply
    THEN e
    ELSE IF lifetime_follows(i.snippet.text, refs_number_of(i.snippet.text)) THEN e
    ELSE IF i.points_at_arg
    THEN span_suggestion(e, span_take_while("cause_span", i.snippet.text, {" ", "&"}),
                         "consider changing this borrow's mutability", <<>>,
                         <<"&", "mut", " ">>, "MachineApplicable")
    ELSE note(e, "is implemented for, but not for",
              <<"Trait">> \o ty_to_string(i.self_ty) \o <<",">> \o ty_to_string(i.self_ty))

\* i: the snippet of the cause span, whether the resolved trait reference
\* still has inference variables, its self type, the solver's answer
\* (must_apply) for the reference of the opposite mutability, points_at_arg.
suggest_change_mut(e, i) ==
    IF ~i.snippet.ok THEN e
    ELSE LET refs_number == refs_number_of(i.snippet.text)
         IN  IF lifetime_follows(i.snippet.text, refs_number) THEN e
             ELSE IF i.has_infer_types THEN e
             ELSE IF i.self_ty.kind = "Ref"
             THEN LET trait_type == mk_ref(IF i.self_ty.mutbl = "Mut" THEN "Not" ELSE "Mut",
                                           i.self_ty.ty)
                      sp == span_take_while("cause_span", i.snippet.text, {" ", "&"})
                  IN  IF i.must_apply
                      THEN IF i.points_at_arg /\ i.self_ty.mutbl = "Not" /\ refs_number > 0
                           THEN span_suggestion(e, sp,
                                                "consider changing this borrow's mutability",
                                                <<>>, <<"&", "mut", " ">>, "MachineApplicable")
                           ELSE note(e, "is implemented for, but not for",
                                     <<"Trait">> \o ty_to_string(trait_type) \o <<",">>
                                         \o ty_to_string(i.self_ty))
                      ELSE e
             ELSE e

SuggestChangeMut ==
    /\ pc = "idle"
    /\ \E self_ty \in {Adt("T"), mk_ref("Not", Adt("T")), mk_ref("Mut", Adt("T"))},
          has_infer_types \in BOOLEAN, must_apply \in BOOLEAN :
         \E snippet \in IF self_ty.kind = "Ref" /\ must_apply /\ ~has_infer_types
                         THEN {SnippetErr} \cup {SnippetOk(t) : t \in Texts(SnippetChars, MaxSnippet)}
                         ELSE {SnippetErr, SnippetOk(<<"x">>), SnippetOk(<<"&", "x">>),
                               SnippetOk(<<"&", "'", "x">>)},
            points_at_arg \in BOOLEAN, e0 \in Diagnostics :
            LET i == [snippet |-> snippet, has_infer_types |-> has_infer_types,
                      self_ty |-> self_ty, must_apply |-> must_apply,
                      points_at_arg |-> points_at_arg]
            IN  Returned("suggest_change_mut", i @@ [err0 |-> e0],
                         suggest_change_mut(e0, i), "unit")

Next ==
    \/ SuggestRemoveReference
    \/ SuggestFnCall
    \/ SuggestImplTrait
    \/ SuggestAddReferenceToArg
    \/ SuggestChangeMut

(***************************************************************************)
(* report_arg_count_mismatch                                               *)
(***************************************************************************)
Arg(name, ty) == [kind |-> "Arg", name |-> name, ty |-> ty]

Tuple(sp, fields) == [kind |-> "Tuple", span |-> sp, fields |-> fields]

ArgShapes == {Arg(<<"x">>, <<"_">>), Arg(<<"y">>, <<"_">>), Arg(<<"y">>, <<"u", "8">>)}

FieldShapes == {[name |-> <<"a">>, ty |-> <<"_">>], [name |-> <<"b">>, ty |-> <<"u", "8">>]}

TupleShapes == {Tuple("some", fs) : fs \in SeqsUpTo(FieldShapes, MaxArgs)}

\* Argument-shape lists: flat lists, a single tuple, and lists that mix both.
ArgLists ==
    SeqsUpTo(ArgShapes, MaxArgs)
    \cup {<<t>> : t \in TupleShapes}
    \cup {<<Arg(<<"x">>, <<"_">>), Tuple("some", <<>>)>>,
          <<Tuple("some", <<[name |-> <<"a">>, ty |-> <<"_">>]>>), Tuple("some", <<>>)>>}

\* The text under found_span: a closure header, with or without `move`.
FoundSpans ==
    {[some |-> FALSE, text |-> <<>>],
     [some |-> TRUE, text |-> <<"|", "x", "|">>],
     [some |-> TRUE, text |-> <<"m", "o", "v", "e", " ", "|", "x", "|">>]}

IsSingleTuple(arguments) == Len(arguments) = 1 /\ arguments[1].kind = "Tuple"

\* (mutation of pluralize: the suffix is put on every count)
pluralize_always(n) == <<"s">>

\* pluralize!(n)
pluralize(n) == IF n # 1 THEN <<"s">> ELSE <<>>

\* The closure args_str.
args_str(arguments, other) ==
    LET arg_length == Len(arguments)
        distinct == IsSingleTuple(other)
    IN  IF IsSingleTuple(arguments)
        THEN <<"a single ", ToString(Len(arguments[1].fields)), "-tuple as argument">>
        ELSE <<ToString(arg_length), " ">>
             \o (IF distinct /\ arg_length > 1 THEN <<"distinct ">> ELSE <<>>)
             \o <<"argument">> \o pluralize(arg_length)

\* SourceMap::span_until_non_whitespace: up to the first non-whitespace
\* character that follows a whitespace character.
RECURSIVE UntilNonWhitespace(_, _)
UntilNonWhitespace(text, whitespace_found) ==
    IF Len(text) = 0 THEN 0
    ELSE IF (whitespace_found \/ is_whitespace(text[1])) /\ ~is_whitespace(text[1]) THEN 0
    ELSE 1 + UntilNonWhitespace(Tail(text), whitespace_found \/ is_whitespace(text[1]))

\* found_span.trim_start(prefix_span), or found_span.
pipe_span_of(text) ==
    LET k == UntilNonWhitespace(text, FALSE)
    IN  IF k < Len(text) THEN [base |-> "found_span", lo |-> k, hi |-> Len(text)]
        ELSE [base |-> "found_span", lo |-> 0, hi |-> Len(text)]

\* vec!["_"; expected_args.len()].join(", ") between pipes.
ignore_args_text(n) == <<"|">> \o Join([i \in 1..n |-> <<"_">>], <<",", " ">>) \o <<"|">>

\* (mutation of found_arg_name: every found argument becomes a placeholder)
found_arg_name_placeholder(arg) == <<"_">>

\* The name a found argument contributes to the re-tupled pattern.
found_arg_name(arg) == IF arg.kind = "Arg" THEN arg.name ELSE <<"_">>

\* "add type annotations if available"
has_type_annotation(found_args) ==
    \E i \in 1..Len(found_args) :
        found_args[i].kind = "Arg" /\ found_args[i].ty # <<"_">>

\* format!("|({}){}|", names, annotation)
retuple_text(found_args, fields) ==
    <<"|", "(">>
    \o Join([i \in 1..Len(found_args) |-> found_arg_name(found_args[i])], <<",", " ">>)
    \o <<")">>
    \o (IF has_type_annotation(found_args)
        THEN <<":", " ", "(">>
             \o Join([i \in 1..Len(fields) |-> fields[i].ty], <<",", " ">>) \o <<")">>
        ELSE <<>>)
    \o <<"|">>

\* (mutation of suggest_ignore_args: one underscore fewer than expected)
suggest_ignore_args_short(e, expected_args, found_args, is_closure, pipe_span) ==
    IF Len(found_args) = 0 /\ is_closure
    THEN span_suggestion(
             e, pipe_span,
             "consider changing the closure to take and ignore the expected argument",
             IF Len(expected_args) < 2 THEN <<"">> ELSE <<"s">>,
             ignore_args_text(Len(expected_args) - 1), "MachineApplicable")
    ELSE e

\* Lines 889-903: found is empty and this is a closure.
suggest_ignore_args(e, expected_args, found_args, is_closure, pipe_span) ==
    IF Len(found_args) = 0 /\ is_closure
    THEN span_suggestion(
             e, pipe_span,
             "consider changing the closure to take and ignore the expected argument",
             IF Len(expected_args) < 2 THEN <<"">> ELSE <<"s">>,
             ignore_args_text(Len(expected_args)), "MachineApplicable")
    ELSE e

\* (mutation of suggest_destructure: the arity of the found tuple is not compared)
suggest_destructure_any_arity(e, expected_args, found_args, found_span) ==
    IF IsSingleTuple(found_args)
    THEN span_suggestion(
             e, found_span,
             "change the closure to take multiple arguments instead of a single tuple", <<>>,
             <<"|">> \o Join([i \in 1..Len(found_args[1].fields) |->
                                found_args[1].fields[i].name], <<",", " ">>) \o <<"|">>,
             "MachineApplicable")
    ELSE e

\* Lines 905-919: found is a single tuple of the expected arity.
suggest_destructure(e, expected_args, found_args, found_span) ==
    IF IsSingleTuple(found_args) /\ Len(found_args[1].fields) = Len(expected_args)
    THEN span_suggestion(
             e, found_span,
             "change the closure to take multiple arguments instead of a single tuple", <<>>,
             <<"|">> \o Join([i \in 1..Len(found_args[1].fields) |->
                                found_args[1].fields[i].name], <<",", " ">>) \o <<"|">>,
             "MachineApplicable")
    ELSE e

\* Lines 920-956: expected is a single tuple of the found arity, on a closure.
suggest_retuple(e, expected_args, found_args, is_closure, found_span) ==
    IF IsSingleTuple(expected_args) /\ Len(expected_args[1].fields) = Len(found_args)
       /\ is_closure
    THEN span_suggestion(
             e, found_span,
             "change the closure to accept a tuple instead of individual arguments", <<>>,
             retuple_text(found_args, expected_args[1].fields), "MachineApplicable")
    ELSE e

\* The diagnostic report_arg_count_mismatch starts from.
arg_count_err(expected_args, found_args, is_closure) ==
    LET kind == IF is_closure THEN "closure" ELSE "function"
        expected_str == args_str(expected_args, found_args)
        found_str == args_str(found_args, expected_args)
    IN  span_label(
            struct_span_err("E0593", "is expected to take, but it takes",
                            <<kind, expected_str, found_str>>),
            "span", "expected that takes", <<kind, expected_str>>)

report_arg_count_mismatch(found_span, expected_args, found_args, is_closure) ==
    LET e1 == arg_count_err(expected_args, found_args, is_closure)
    IN  IF ~found_span.some THEN e1
        ELSE
        LET whole == [base |-> "found_span", lo |-> 0, hi |-> Len(found_span.text)]
            e2 == span_label(e1, whole, "takes", <<args_str(found_args, expected_args)>>)
            e3 == suggest_ignore_args(e2, expected_args, found_args, is_closure,
                                      pipe_span_of(found_span.text))
            e4 == suggest_destructure(e3, expected_args, found_args, whole)
        IN  suggest_retuple(e4, expected_args, found_args, is_closure, whole)

ReportArgCountMismatch ==
    /\ pc = "idle"
    /\ \E expected_args \in ArgLists, found_args \in ArgLists, is_closure \in BOOLEAN,
          found_span \in FoundSpans :
         Returned("report_arg_count_mismatch",
                  [err0 |-> arg_count_err(expected_args, found_args, is_closure),
                   expected_args |-> expected_args, found_args |-> found_args,
                   is_closure |-> is_closure, found_span |-> found_span],
                  report_arg_count_mismatch(found_span, expected_args, found_args, is_closure),
                  "err")

\* get_fn_like_arguments: the span and the argument shapes of a function-like
\* node.  A closure parameter is a tuple pattern with the snippets of its
\* sub-patterns, or any other pattern with its own snippet; both snippets are
\* unwrapped.  Any node outside the five shapes panics.
get_fn_like_arguments(node) ==
    IF node.node = "Closure"
    THEN IF \E k \in 1..Len(node.params) :
               IF node.params[k].kind = "Tuple"
               THEN \E j \in 1..Len(node.params[k].pats) : ~node.params[k].pats[j].ok
               ELSE ~node.params[k].snippet.ok
         THEN [ret |-> "abort", out |-> NoLocals]
         ELSE [ret |-> "ok",
               out |-> [span |-> "def_span(closure)",
                        args |-> [k \in 1..Len(node.params) |->
                                     IF node.params[k].kind = "Tuple"
                                     THEN Tuple("some",
                                                [j \in 1..Len(node.params[k].pats) |->
                                                    [name |-> node.params[k].pats[j].text,
                                                     ty |-> <<"_">>]])
                                     ELSE Arg(node.params[k].snippet.text, <<"_">>)]]]
    ELSE IF node.node \in {"ItemFn", "ImplItemMethod", "TraitItemMethod"}
    THEN [ret |-> "ok",
          out |-> [span |-> "def_span(item)",
                   args |-> [k \in 1..Len(node.inputs) |->
                                IF node.inputs[k].kind = "Tup"
                                THEN Tuple("some", [j \in 1..node.inputs[k].tys |->
                                                       [name |-> <<"_">>, ty |-> <<"_">>]])
                                ELSE Arg(<<"_">>, <<"_">>)]]]
    ELSE IF node.node = "Ctor"
    THEN [ret |-> "ok",
          out |-> [span |-> IF node.ctor_hir_id THEN "def_span(ctor)" ELSE "def_span(DUMMY_SP)",
                   args |-> [k \in 1..node.fields |-> Arg(<<"_">>, <<"_">>)]]]
    ELSE [ret |-> "abort", out |-> NoLocals]

GetFnLikeArguments ==
    /\ pc = "idle"
    /\ \E node \in
            {[node |-> "Closure", params |-> ps] :
                ps \in SeqsUpTo({[kind |-> "Binding", snippet |-> SnippetOk(<<"x">>)],
                                 [kind |-> "Binding", snippet |-> SnippetErr],
                                 [kind |-> "Tuple", pats |-> <<>>],
                                 [kind |-> "Tuple", pats |-> <<SnippetOk(<<"a">>)>>],
                                 [kind |-> "Tuple",
                                  pats |-> <<SnippetOk(<<"a">>), SnippetOk(<<"b">>)>>],
                                 [kind |-> "Tuple", pats |-> <<SnippetOk(<<"a">>), SnippetErr>>]},
                                MaxArgs)}
            \cup {[node |-> n, inputs |-> tys] :
                     n \in {"ItemFn", "ImplItemMethod", "TraitItemMethod"},
                     tys \in SeqsUpTo({[kind |-> "Path", tys |-> 0]}
                                      \cup {[kind |-> "Tup", tys |-> j] : j \in 0..MaxArgs},
                                      MaxArgs)}
            \cup {[node |-> "Ctor", fields |-> n, ctor_hir_id |-> c] :
                     n \in 0..MaxArgs, c \in BOOLEAN}
            \cup {[node |-> n] : n \in {"ItemStruct", "ExprCall", "Local", "ImplItemConst"}} :
         /\ op' = "get_fn_like_arguments"
         /\ inp' = [node |-> node]
         /\ ret' = get_fn_like_arguments(node).ret
         /\ locals' = get_fn_like_arguments(node).out
         /\ pc' = "done"
         /\ UNCHANGED <<err, code, obligated_types>>

ArgNext == ReportArgCountMismatch \/ GetFnLikeArguments

ArgSpec == Init /\ [][ArgNext]_vars

(***************************************************************************)
(* maybe_note_obligation_cause_for_async_await                             *)
(***************************************************************************)
\* A type with one region position: "none", "free", "bound" (late-bound) or "erased".
RegTy(n, rg) == [kind |-> "Adt", name |-> n, region |-> rg]

GeneratorTy(did) == [kind |-> "Generator", did |-> did]

WitnessTy == [kind |-> "GeneratorWitness"]

\* tcx.erase_regions: free regions are erased, bound regions are preserved.
erase_regions(t) ==
    IF t.kind = "Adt" /\ t.region = "free" THEN [t EXCEPT !.region = "erased"] ELSE t

\* tcx.erase_late_bound_regions(Binder::bind(ty))
erase_late_bound_regions(t) ==
    IF t.kind = "Adt" /\ t.region = "bound" THEN [t EXCEPT !.region = "erased"] ELSE t

\* The derived steps a chain can be made of: the parent trait reference of each.
AsyncLinks ==
    {[tag |-> "BuiltinDerivedObligation", def_id |-> "Send", self_ty |-> GeneratorTy("g1")],
     [tag |-> "BuiltinDerivedObligation", def_id |-> "Send", self_ty |-> GeneratorTy("g2")],
     [tag |-> "BuiltinDerivedObligation", def_id |-> "Send", self_ty |-> WitnessTy],
     [tag |-> "BuiltinDerivedObligation", def_id |-> "Send", self_ty |-> RegTy("A", "none")],
     [tag |-> "ImplDerivedObligation", def_id |-> "Sync", self_ty |-> RegTy("B", "none")]}

AsyncLeaves ==
    {[tag |-> "MiscObligation"],
     [tag |-> "BindingObligation", named |-> TRUE, dummy_sp |-> FALSE]}

RECURSIVE AsyncCodes(_)
AsyncCodes(n) ==
    IF n = 0 THEN AsyncLeaves
    ELSE AsyncLeaves \cup
         {DerivedObligation(l.tag, l.def_id, l.self_ty, c) :
            l \in AsyncLinks, c \in AsyncCodes(n - 1)}

\* obligation.predicate
Predicates ==
    {[kind |-> "Trait", trait_ref |-> [def_id |-> "Send", self_ty |-> RegTy("C", "free")]],
     [kind |-> "Trait", trait_ref |-> [def_id |-> "Clone", self_ty |-> RegTy("C", "free")]],
     [kind |-> "Projection"]}

\* GeneratorInteriorTypeCause: the type, what span_to_snippet answers for its
\* span, whether a scope span is known, and whether its expression is the
\* receiver of a method call that borrows it.
InteriorEntries ==
    {[ty |-> RegTy("C", "bound"), snippet |-> SnippetOk(<<"c">>), scope_span |-> TRUE,
      method_ref |-> TRUE],
     [ty |-> RegTy("A", "none"), snippet |-> SnippetOk(<<"a">>), scope_span |-> FALSE,
      method_ref |-> FALSE],
     [ty |-> RegTy("C", "free"), snippet |-> SnippetErr, scope_span |-> FALSE,
      method_ref |-> FALSE]}

\* What tcx knows of a generator: g1 is the body of the async fn `foo`, g2 is a
\* plain generator closure.
GeneratorInfo(did) ==
    IF did = "g1" THEN [is_async |-> TRUE, parent_name |-> <<"foo">>]
    ELSE [is_async |-> FALSE, parent_name |-> <<>>]

\* Lines 1124-1132.
scan_init(predicate) ==
    [generator |-> <<>>, last_generator |-> <<>>,
     trait_ref |-> IF predicate.kind = "Trait" THEN <<predicate.trait_ref>> ELSE <<>>,
     target_ty |-> IF predicate.kind = "Trait" THEN <<predicate.trait_ref.self_ty>> ELSE <<>>]

\* (mutation of scan_update: the target is overwritten after a frame was found too)
scan_update_unguarded(l, parent_trait_ref) ==
    LET ty == parent_trait_ref.self_ty
    IN  IF ty.kind = "Generator"
        THEN [l EXCEPT !.generator = IF l.generator = <<>> THEN <<ty.did>> ELSE @,
                       !.last_generator = <<ty.did>>]
        ELSE IF ty.kind = "GeneratorWitness" THEN l
        ELSE [l EXCEPT !.trait_ref = <<parent_trait_ref>>, !.target_ty = <<ty>>]

\* Lines 1138-1156: one derived step of the scan.
scan_update(l, parent_trait_ref) ==
    LET ty == parent_trait_ref.self_ty
    IN  IF ty.kind = "Generator"
        THEN [l EXCEPT !.generator = IF l.generator = <<>> THEN <<ty.did>> ELSE @,
                       !.last_generator = <<ty.did>>]
        ELSE IF ty.kind = "GeneratorWitness" THEN l
        ELSE IF l.generator = <<>>
        THEN [l EXCEPT !.trait_ref = <<parent_trait_ref>>, !.target_ty = <<ty>>]
        ELSE l

\* Lines 1208-1234: the first interior entry matching the target, or 0.
find_interior(table, target_ty) ==
    LET hits == {k \in 1..Len(table) :
                    erase_regions(erase_late_bound_regions(table[k].ty))
                        = erase_regions(target_ty)}
    IN  IF hits = {} THEN 0 ELSE CHOOSE k \in hits : \A j \in hits : k <= j

\* note_obligation_cause_for_async_await
note_obligation_cause_for_async_await(e, entry, first_generator, last_generator, trait_ref, target_ty, next_code) ==
    LET await_or_yield == IF GeneratorInfo(first_generator).is_async THEN "await" ELSE "yield"
        is_send == trait_ref.def_id = "Send"
        is_sync == trait_ref.def_id = "Sync"
        trait_name == IF is_send THEN "Send" ELSE "Sync"
        name == IF last_generator = <<>> THEN <<>>
                ELSE GeneratorInfo(last_generator[1]).parent_name
        e1 == IF is_send \/ is_sync
              THEN span_label(
                       [e EXCEPT !.code = "none",
                                 !.message = [msg |-> "future cannot be between threads safely",
                                              args |-> <<IF is_send THEN "sent" ELSE "shared">>]],
                       "original_span",
                       IF name # <<>> THEN "future returned by is not" ELSE "future is not",
                       name \o <<trait_name>>)
              ELSE e
        trait_explanation == IF is_send \/ is_sync THEN <<"is not", trait_name>>
                             ELSE <<"does not implement", trait_ref.def_id>>
        e2 == note(e1, "future as this value is used across an",
                   trait_explanation
                   \o <<await_or_yield, "occurs here, with maybe used later">> \o entry.snippet.text
                   \o <<"has type", target_ty.name>>
                   \o (IF entry.scope_span THEN <<"is later dropped here">> ELSE <<>>))
        e3 == IF entry.method_ref
              THEN help(e2, "consider moving this method call into a let binding", <<>>)
              ELSE e2
    IN  note_leaf(e3, next_code, [nightly |-> FALSE, unsized_locals |-> FALSE])

\* The call: lines 1124-1132.
CallMaybeNoteAsync ==
    /\ pc = "idle"
    /\ \E predicate \in Predicates, c \in AsyncCodes(MaxAsyncChain) :
         /\ op' = "maybe_note_obligation_cause_for_async_await"
         /\ inp' = [err0 |-> UsedDiagnostic, predicate |-> predicate, cause_code |-> c,
                    local |-> TRUE, table |-> <<>>]
         /\ err' = UsedDiagnostic
         /\ ret' = "none"
         /\ code' = c
         /\ locals' = scan_init(predicate)
         /\ pc' = "scan"
         /\ UNCHANGED obligated_types

\* (mutation of AsyncScanStep: the derived steps after the first frame are skipped)
AsyncScanStep_StopAtFrame ==
    /\ pc = "scan"
    /\ IF IsDerived(code)
       THEN /\ locals' = scan_update(locals, code.parent_trait_ref)
            /\ code' = IF code.parent_trait_ref.self_ty.kind = "Generator"
                       THEN Links(code)[Len(Links(code))]
                       ELSE code.parent_code
            /\ pc' = "scan"
       ELSE /\ pc' = "lookup"
            /\ UNCHANGED <<locals, code>>
    /\ UNCHANGED <<op, inp, err, ret, obligated_types>>

\* One iteration of the loop of lines 1133-1162.
AsyncScanStep ==
    /\ pc = "scan"
    /\ IF IsDerived(code)
       THEN /\ locals' = scan_update(locals, code.parent_trait_ref)
            /\ code' = code.parent_code
            /\ pc' = "scan"
       ELSE /\ pc' = "lookup"
            /\ UNCHANGED <<locals, code>>
    /\ UNCHANGED <<op, inp, err, ret, obligated_types>>

\* (mutation of AsyncLookup: the note is written also when no entry matches)
AsyncLookup_Unmatched ==
    /\ pc = "lookup"
    /\ pc' = "done"
    /\ IF locals.generator = <<>> \/ locals.trait_ref = <<>> \/ locals.target_ty = <<>>
       THEN ret' = "false" /\ UNCHANGED <<inp, err>>
       ELSE \/ /\ inp' = [inp EXCEPT !.local = FALSE]
               /\ ret' = "false"
               /\ UNCHANGED err
            \/ \E table \in SeqsUpTo(InteriorEntries, MaxInterior) :
                 LET k == find_interior(table, locals.target_ty[1])
                     entry == IF k = 0
                              THEN [ty |-> locals.target_ty[1], snippet |-> SnippetOk(<<>>),
                                    scope_span |-> FALSE, method_ref |-> FALSE]
                              ELSE table[k]
                 IN  /\ inp' = [inp EXCEPT !.table = table]
                     /\ IF entry.snippet.ok
                        THEN /\ err' = note_obligation_cause_for_async_await(
                                           err, entry, locals.generator[1],
                                           locals.last_generator, locals.trait_ref[1],
                                           locals.target_ty[1], code)
                             /\ ret' = "true"
                        ELSE ret' = "false" /\ UNCHANGED err
    /\ UNCHANGED <<op, code, locals, obligated_types>>

\* Lines 1164-1262, after the loop.
AsyncLookup ==
    /\ pc = "lookup"
    /\ pc' = "done"
    /\ IF locals.generator = <<>> \/ locals.trait_ref = <<>> \/ locals.target_ty = <<>>
       THEN ret' = "false" /\ UNCHANGED <<inp, err>>
       ELSE \/ /\ inp' = [inp EXCEPT !.local = FALSE]     \* as_local_hir_id(..).is_none()
               /\ ret' = "false"
               /\ UNCHANGED err
            \/ \E table \in SeqsUpTo(InteriorEntries, MaxInterior) :
                 LET k == find_interior(table, locals.target_ty[1])
                 IN  /\ inp' = [inp EXCEPT !.table = table]
                     /\ IF k # 0 /\ table[k].snippet.ok
                        THEN /\ err' = note_obligation_cause_for_async_await(
                                           err, table[k], locals.generator[1],
                                           locals.last_generator, locals.trait_ref[1],
                                           locals.target_ty[1], code)
                             /\ ret' = "true"
                        ELSE ret' = "false" /\ UNCHANGED err
    /\ UNCHANGED <<op, code, locals, obligated_types>>

AsyncNext == CallMaybeNoteAsync \/ AsyncScanStep \/ AsyncLookup

AsyncSpec == Init /\ [][AsyncNext]_vars

Spec == Init /\ [][Next]_vars

(***************************************************************************)
(* suggest_restricting_param_bound and suggest_constraining_type_param     *)
(***************************************************************************)
\* The node kinds of the associated-type arm (lines 74-91).
ProjectionArmKinds ==
    {"ItemFn", "TraitItemMethod", "ImplItemMethod", "ItemTrait", "ItemImpl"}

\* The node kinds of the type-parameter arm (lines 93-140): the items with
\* generics, and every trait item and impl item.
ParamArmKinds ==
    {"ItemStruct", "ItemEnum", "ItemUnion", "ItemTrait", "ItemImpl", "ItemFn", "ItemTyAlias",
     "ItemTraitAlias", "ItemOpaqueTy", "TraitItemMethod", "TraitItemConst", "ImplItemMethod"}

\* A span of the generics of the item generics.owner: it comes from where the
\* item comes from ("none", or the "macro" or "desugaring" expansion that
\* produced it).
generics_span(generics, base) ==
    [base |-> base, owner |-> generics.owner, expansion |-> generics.expansion]

\* (mutation of suggest_restriction: the expansion of the span is not looked at)
suggest_restriction_unchecked(e, generics, msg, self_ty) ==
    span_suggestion(e, generics_span(generics, "where_clause_hi"),
                    "consider further restricting", <<msg>>,
                    (IF generics.wc_nonempty THEN <<",">> ELSE <<" where">>)
                        \o <<" ">> \o self_ty.name \o <<": ", "Trait">> \o <<" ">>,
                    "MachineApplicable")

\* The closure suggest_restriction (lines 39-58).
suggest_restriction(e, generics, msg, self_ty) ==
    IF generics.expansion = "none"
    THEN span_suggestion(e, generics_span(generics, "where_clause_hi"),
                         "consider further restricting", <<msg>>,
                         (IF generics.wc_nonempty THEN <<",">> ELSE <<" where">>)
                             \o <<" ">> \o self_ty.name \o <<": ", "Trait">> \o <<" ">>,
                         "MachineApplicable")
    ELSE e

\* generics.param: "absent" (no parameter of that name), "bare" (no bounds),
\* "bounded_colon" (bounds, and the span through the colon is certain) or
\* "bounded" (bounds, the colon was not found).
suggest_constraining_type_param(e, generics, param_name, constraint) ==
    IF generics.param = "absent" THEN [err |-> e, ret |-> FALSE]
    ELSE [ret |-> TRUE,
          err |->
            IF starts_with(param_name, "impl ")
            THEN span_suggestion(e, generics_span(generics, "param"),
                                 "consider further restricting this bound", <<>>,
                                 param_name \o <<" + ">> \o constraint, "MachineApplicable")
            ELSE IF ~generics.wc_nonempty /\ generics.param = "bare"
            THEN span_suggestion(e, generics_span(generics, "param"),
                                 "consider restricting this bound", <<>>,
                                 param_name \o <<": ">> \o constraint, "MachineApplicable")
            ELSE IF generics.wc_nonempty
            THEN span_suggestion(e, generics_span(generics, "where_clause_hi"),
                                 "consider further restricting type parameter", param_name,
                                 <<", ">> \o param_name \o <<": ">> \o constraint,
                                 "MachineApplicable")
            ELSE IF generics.param = "bounded_colon"
            THEN span_suggestion(e, generics_span(generics, "param_through_colon"),
                                 "consider further restricting this bound", <<>>,
                                 param_name \o <<": ">> \o constraint \o <<" + ">>,
                                 "MachineApplicable")
            ELSE span_label(e, generics_span(generics, "param"),
                            "consider adding a where bound", param_name \o constraint)]

\* The node tcx.hir().find(hir_id) answers at the k-th step of the climb; the
\* chain of enclosing items ends at the crate.
node_at(chain, k) == IF k > Len(chain) THEN [kind |-> "Crate"] ELSE chain[k]

\* Lines 26-37, and the first hir_id of the loop.
CallSuggestRestrictingParamBound ==
    /\ pc = "idle"
    /\ \E self_ty \in {[kind |-> "Param", name |-> <<"T">>],
                        [kind |-> "Param", name |-> <<"Self">>],
                        [kind |-> "Param", name |-> <<"impl ", "X">>],
                        [kind |-> "Projection", name |-> <<"T::Item">>],
                        [kind |-> "Adt", name |-> <<"S">>]} :
       \E n \in 0..(IF self_ty.kind = "Adt" THEN 1 ELSE MaxItems) :
       \E kinds \in [1..n -> {"TraitItemMethod", "TraitItemConst", "ItemFn", "ItemTrait",
                              "ItemStruct", "ItemMod"}],
          pos \in 1..n,
          g \in {[expansion |-> x, wc_nonempty |-> w, param |-> q] :
                   x \in {"none", "macro", "desugaring"}, w \in BOOLEAN,
                   q \in IF self_ty.kind # "Param" \/ self_ty.name = <<"Self">>
                         THEN {"absent"}
                         ELSE IF self_ty.name = <<"T">>
                         THEN {"absent", "bare", "bounded_colon", "bounded"}
                         ELSE {"absent", "bare"}},
          other \in IF self_ty.name = <<"T">> THEN {"absent", "bare"} ELSE {"absent"} :
          /\ op' = "suggest_restricting_param_bound"
          /\ inp' = [err0 |-> UsedDiagnostic, self_ty |-> self_ty,
                     chain |-> [k \in 1..n |->
                                  [kind |-> kinds[k],
                                   generics |->
                                     [owner |-> k,
                                      expansion |-> IF k = pos THEN g.expansion ELSE "none",
                                      wc_nonempty |-> k = pos /\ g.wc_nonempty,
                                      param |-> IF k = pos THEN g.param ELSE other]]]]
          /\ err' = UsedDiagnostic
          /\ locals' = [hir_id |-> 1]
          /\ IF self_ty.kind \in {"Param", "Projection"}
             THEN pc' = "climb" /\ ret' = "none"
             ELSE pc' = "done" /\ ret' = "unit"
          /\ UNCHANGED <<code, obligated_types>>

\* One iteration of the loop of lines 62-165.
RestrictStep ==
    /\ pc = "climb"
    /\ LET node == node_at(inp.chain, locals.hir_id)
           param_ty == inp.self_ty.kind = "Param"
           projection == inp.self_ty.kind = "Projection"
           constrained == suggest_constraining_type_param(err, node.generics, inp.self_ty.name,
                                                          <<"Trait">>)
       IN  IF node.kind = "TraitItemMethod" /\ param_ty /\ inp.self_ty.name = <<"Self">>
           THEN /\ err' = suggest_restriction(err, node.generics, "Self", inp.self_ty)
                /\ pc' = "done" /\ UNCHANGED locals
           ELSE IF node.kind \in ProjectionArmKinds /\ projection
           THEN /\ err' = suggest_restriction(err, node.generics, "the associated type",
                                              inp.self_ty)
                /\ pc' = "done" /\ UNCHANGED locals
           ELSE IF node.kind \in ParamArmKinds /\ param_ty /\ constrained.ret
           THEN /\ err' = constrained.err
                /\ pc' = "done" /\ UNCHANGED locals
           ELSE IF node.kind = "Crate"
           THEN pc' = "done" /\ UNCHANGED <<err, locals>>
           ELSE /\ locals' = [hir_id |-> locals.hir_id + 1]       \* get_parent_item
                /\ pc' = "climb" /\ UNCHANGED err
    /\ ret' = IF pc' = "done" THEN "unit" ELSE "none"
    /\ UNCHANGED <<op, inp, code, obligated_types>>

BoundNext == CallSuggestRestrictingParamBound \/ RestrictStep

BoundSpec == Init /\ [][BoundNext]_vars

\* The loop is synchronous: a call that has started runs to its return.
BoundFairSpec == BoundSpec /\ WF_vars(RestrictStep)

(***************************************************************************)
(* The walker's claims.                                                    *)
(***************************************************************************)
Walked == op = "note_obligation_cause_code" /\ pc = "done"

\* Notes, helps and labels on the diagnostic: the walk's explanatory steps.
StepsEmitted == Len(err.children) + Len(err.labels)

ChainLinks == Links(inp.cause_code)

NumDerived == Len(ChainLinks) - 1

\* Parent subject type of the i-th derived link, inference variables resolved.
LinkTy(i) == resolve_vars_if_possible(inp.infcx, ChainLinks[i].parent_trait_ref.self_ty)

\* The i-th link's subject type has been met at an earlier link.
RepeatsAt(i) == \E j \in 1..(i - 1) : LinkTy(j) = LinkTy(i)

HasRepeat == \E i \in 1..NumDerived : RepeatsAt(i)

\* Position (from 1) of the first link that repeats a subject type.
FirstRepeat == CHOOSE i \in 1..NumDerived : RepeatsAt(i) /\ \A j \in 1..(i - 1) : ~RepeatsAt(j)

AllBuiltin == \A i \in 1..NumDerived : ChainLinks[i].tag = "BuiltinDerivedObligation"

\* The walk stopped at the recursive-obligation guard of a builtin-derived step.
StoppedAtGuard ==
    /\ code.tag = "BuiltinDerivedObligation"
    /\ is_recursive_obligation(inp.infcx, obligated_types, code.parent_code)

\* C1: every walk of a finite cause chain terminates: a step that recurses hands
\* the recursion exactly the parent_code of the current (derived) cause, a walk
\* that has returned stands at a leaf or in the builtin-derived arm (the one
\* that holds the recursive-obligation guard), and every walk that starts returns.
C1_WalkTerminates ==
    /\ [][(pc = "walk" /\ pc' = "walk") =>
            (IsDerived(code) /\ code' = code.parent_code)]_vars
    /\ [](Walked => (~IsDerived(code) \/ code.tag = "BuiltinDerivedObligation"))
    /\ ((pc = "walk") ~> (pc = "done"))

\* C1 witness: a walk through three derived links has returned at the leaf.
C1_Witness == Walked /\ NumDerived >= 3 /\ ~IsDerived(code)

\* Steps the leaf's fixed rendering adds.
LeafSteps(c, tcx) ==
    CASE c.tag = "MiscObligation" -> 0
      [] c.tag \in {"SizedReturnType", "ItemObligation"} -> 1
      [] c.tag = "VariableType" -> IF tcx.unsized_locals THEN 1 ELSE 2
      [] c.tag = "BindingObligation" -> IF c.named THEN 2 ELSE 1
      [] c.tag = "RepeatVec" -> IF ~c.suggest THEN 1 ELSE IF tcx.nightly THEN 3 ELSE 2

\* C2 as stated: a chain of N causes in which no subject type repeats yields
\* exactly N explanatory steps, whatever the variant of each cause.
C2_Original ==
    (Walked /\ ~HasRepeat) => StepsEmitted = Len(ChainLinks)

\* C2 as amended: a chain of N causes in which no subject type repeats yields
\* exactly one note per derived link, in chain order, each naming that link's
\* resolved parent subject type (N-1 notes), followed by the leaf's own fixed
\* rendering, which is nothing for a silent leaf, one step for most leaves and
\* two or three for some.
C2_StepsPerLink ==
    (Walked /\ ~HasRepeat) =>
        /\ ~IsDerived(code)
        /\ StepsEmitted = NumDerived + LeafSteps(ChainLinks[Len(ChainLinks)], inp.tcx)
        /\ Len(err.children) >= NumDerived
        /\ \A i \in 1..NumDerived :
              /\ err.children[i].kind = "note"
              /\ err.children[i].args[Len(err.children[i].args)] = LinkTy(i)
              /\ err.children[i].msg =
                    IF ChainLinks[i].tag = "BuiltinDerivedObligation"
                    THEN "required because it appears within the type"
                    ELSE "required because of the requirements on the impl of"

\* C2 witness: three derived links of both variants, no repeat, a two-step leaf.
C2_Witness ==
    /\ Walked /\ ~HasRepeat /\ NumDerived = 3
    /\ \E i \in 1..3 : ChainLinks[i].tag = "ImplDerivedObligation"
    /\ \E i \in 1..3 : ChainLinks[i].tag = "BuiltinDerivedObligation"
    /\ StepsEmitted = 5

\* C3 as stated: if a parent subject type repeats at position k of the chain,
\* builtin-derived or impl-derived, fewer than k+1 steps are emitted.
C3_Original ==
    (Walked /\ HasRepeat) => StepsEmitted < FirstRepeat + 1

\* C3 as amended: in a chain whose derived links are all builtin-derived and
\* whose parent subject type first repeats at the k-th link, the guard fires at
\* link k-1: exactly k-1 notes are emitted (fewer than k+1), the repeated type
\* is not explained a second time and nothing is emitted after the guard fires.
C3_GuardStopsBuiltinChain ==
    (Walked /\ HasRepeat /\ AllBuiltin) =>
        /\ StoppedAtGuard
        /\ code = ChainLinks[FirstRepeat - 1]
        /\ StepsEmitted = FirstRepeat - 1
        /\ Len(err.labels) = 0
        /\ \A i \in 1..Len(err.children) : err.children[i].args = <<LinkTy(i)>>

\* C3 witness: a builtin-derived chain whose third link repeats a type, stopped
\* after two notes.
C3_Witness ==
    Walked /\ HasRepeat /\ AllBuiltin /\ FirstRepeat = 3 /\ StepsEmitted = 2

(***************************************************************************)
(* The claims on suggest_remove_reference.                                 *)
(***************************************************************************)
RECURSIVE RefDepth(_)
RefDepth(ty) == IF ty.kind = "Ref" THEN 1 + RefDepth(ty.ty) ELSE 0

RECURSIVE PeelN(_, _)
PeelN(ty, n) == IF n = 0 THEN ty ELSE PeelN(ty.ty, n - 1)

\* The suggestions the call has added to the diagnostic it was given.
NewSuggestions ==
    SubSeq(err.suggestions, Len(inp.err0.suggestions) + 1, Len(err.suggestions))

\* Number of `&` in the leading run of `&` and whitespace of the snippet.
LeadingRefs(text) ==
    Cardinality({i \in 1..PrefixLen(text, {"&", " "}) : text[i] = "&"})

\* The leading run of `&` is directly followed by a lifetime token.
LifetimeAfterRefs(text) ==
    LET k == PrefixLen(text, {"&", " "}) IN Len(text) > k /\ text[k + 1] = "'"

\* The subject type is n reference levels around a type T for which the
\* constraint may hold, and it holds for no type with fewer levels peeled.
FirstSatisfiedAt(n) ==
    /\ inp.snippet.ok
    /\ LeadingRefs(inp.snippet.text) >= n
    /\ PeelN(inp.self_ty, n) \in inp.solver.may_hold
    /\ \A i \in 1..(n - 1) : PeelN(inp.self_ty, i) \notin inp.solver.may_hold

SuggestsRemoving(n) ==
    /\ Len(NewSuggestions) = 1
    /\ NewSuggestions[1].msg = "consider removing leading &-references"
    /\ NewSuggestions[1].args = <<n>>
    /\ NewSuggestions[1].applicability = "MachineApplicable"

\* C4 as stated: subject type n reference levels around T, at least n leading
\* `&` in the snippet, constraint satisfiable for T and for no intermediate
\* type: the rule suggests removing exactly n leading references.
C4_Original ==
    op = "suggest_remove_reference" =>
        \A n \in 1..RefDepth(inp.self_ty) : FirstSatisfiedAt(n) => SuggestsRemoving(n)

\* C4 as amended: the same, provided the leading `&` of the snippet are not
\* directly followed by a lifetime token (`&'a T`), in which case the rule
\* suggests nothing.
C4_RemovesExactlyN ==
    op = "suggest_remove_reference" =>
        \A n \in 1..RefDepth(inp.self_ty) :
            FirstSatisfiedAt(n) =>
                IF LifetimeAfterRefs(inp.snippet.text)
                THEN err = inp.err0
                ELSE SuggestsRemoving(n)

\* C4 witness: &&&T with snippet `&&&x`, satisfiable at T only: three removed.
C4_Witness ==
    /\ op = "suggest_remove_reference"
    /\ RefDepth(inp.self_ty) = 3
    /\ inp.snippet = SnippetOk(<<"&", "&", "&", "x">>)
    /\ FirstSatisfiedAt(3)
    /\ SuggestsRemoving(3)

(***************************************************************************)
(* The claims on suggest_fn_call.                                          *)
(***************************************************************************)
\* The children the call has added to the diagnostic it was given.
NewChildren == SubSeq(err.children, Len(inp.err0.children) + 1, Len(err.children))

\* The call attached its suggestion, or its help when not pointing at an argument.
FnCallAttached ==
    /\ op = "suggest_fn_call"
    /\ \/ inp.points_at_arg /\ Len(NewSuggestions) = 1
       \/ ~inp.points_at_arg /\ Len(NewChildren) = 1 /\ NewChildren[1].kind = "help"

\* The text of the call the rule proposes.
FnCallText ==
    IF inp.points_at_arg THEN NewSuggestions[1].parts[1].text
    ELSE NewChildren[1].args[Len(NewChildren[1].args)]

\* name(_, ..., _) with n placeholders.
PlaceholderCall(name, n) ==
    name \o <<"(">> \o Join([i \in 1..n |-> <<"_">>], <<",", " ">>) \o <<")">>

CallableName == IF inp.node.node = "Closure" THEN inp.node.pat.name ELSE inp.node.ident

CallableArity == IF inp.node.node = "Closure" THEN inp.node.inputs ELSE Len(inp.node.params)

\* The callable resolves to a named local declaration whose output satisfies
\* the failing constraint.
FnCallApplies ==
    /\ op = "suggest_fn_call"
    /\ inp.eval \in {"EvaluatedToOk", "EvaluatedToOkModuloRegions", "EvaluatedToAmbig"}
    /\ \/ /\ inp.self_kind = "FnDef" /\ inp.node.node = "Fn"
       \/ /\ inp.self_kind = "Closure" /\ inp.node.node = "Closure"
          /\ inp.node.parent \in {"Stmt", "Local"}
          /\ inp.node.pat.kind = "Binding" /\ inp.node.pat.annotation = "Unannotated"
          /\ ~inp.node.pat.sub

\* C5 as stated: for a callable with n declared parameters the suggested text
\* is its name followed by n `_` placeholders joined by ", " in parentheses,
\* for closures and named functions alike.
C5_Original ==
    FnCallApplies =>
        FnCallAttached /\ FnCallText = PlaceholderCall(CallableName, CallableArity)

\* A parameter the rule renders as a placeholder: anything but a plain binding
\* of a name other than `self`.
RendersAsPlaceholder(pat) ==
    pat.kind # "Binding" \/ pat.sub \/ pat.name = <<"s", "e", "l", "f">>

\* C5 as amended: the suggested text is the callable's name followed by a
\* parenthesized list of exactly n entries joined by ", "; for a closure every
\* entry is `_` (`name()` for no parameters), for a named function an entry is
\* the parameter's own name when the parameter is a plain binding other than
\* `self`, and `_` otherwise (`name(a, b)` for `fn name(a: A, b: B)`).
C5_CallText ==
    FnCallApplies =>
        /\ FnCallAttached
        /\ FnCallText =
              CallableName \o <<"(">> \o
              Join([i \in 1..CallableArity |->
                      IF inp.node.node = "Fn" /\ ~RendersAsPlaceholder(inp.node.params[i])
                      THEN inp.node.params[i].name ELSE <<"_">>], <<",", " ">>)
              \o <<")">>
        /\ inp.points_at_arg => NewSuggestions[1].applicability = "HasPlaceholders"

\* C5 witness: a two-parameter named function `fn foo(a, self)` whose call is
\* suggested as `foo(a, _)`.
C5_Witness ==
    /\ FnCallApplies /\ inp.node.node = "Fn" /\ inp.points_at_arg
    /\ FnCallText = <<"f", "o", "o", "(", "a", ",", " ", "_", ")">>

(***************************************************************************)
(* The claims on report_arg_count_mismatch.                                *)
(***************************************************************************)
Reported == op = "report_arg_count_mismatch"

AllFlat(arguments) == \A i \in 1..Len(arguments) : arguments[i].kind = "Arg"

\* The suggestions of the report that carry the given message.
SuggestionsSaying(m) ==
    {i \in 1..Len(err.suggestions) : err.suggestions[i].msg = m}

RetupleMsg == "change the closure to accept a tuple instead of individual arguments"

IgnoreMsg == "consider changing the closure to take and ignore the expected argument"

\* C6: expected is a single tuple of arity k, found is k flat arguments, on a
\* closure with a found span: exactly one re-tupling suggestion is attached; its
\* text is `|(` + the found names joined by ", " + `)|`, with `: (types)` (the
\* expected tuple's field types) inserted before the closing pipe if and only if
\* some found argument carries a type text other than `_`.
C6_RetupleText ==
    (/\ Reported /\ inp.is_closure /\ inp.found_span.some
     /\ IsSingleTuple(inp.expected_args) /\ AllFlat(inp.found_args)
     /\ Len(inp.expected_args[1].fields) = Len(inp.found_args)) =>
        LET names == <<"|", "(">>
                     \o Join([i \in 1..Len(inp.found_args) |-> inp.found_args[i].name],
                             <<",", " ">>)
                     \o <<")">>
            types == <<":", " ", "(">>
                     \o Join([i \in 1..Len(inp.expected_args[1].fields) |->
                                inp.expected_args[1].fields[i].ty], <<",", " ">>)
                     \o <<")">>
            typed == \E i \in 1..Len(inp.found_args) : inp.found_args[i].ty # <<"_">>
        IN  \E i \in 1..Len(err.suggestions) :
               /\ SuggestionsSaying(RetupleMsg) = {i}
               /\ err.suggestions[i].parts[1].text =
                     IF typed THEN names \o types \o <<"|">> ELSE names \o <<"|">>

\* C6 witness: expected [Tuple(a, b)], found [Arg(x, _), Arg(y, _)]: `|(x, y)|`.
C6_Witness ==
    /\ Reported /\ inp.is_closure /\ inp.found_span.some
    /\ IsSingleTuple(inp.expected_args) /\ Len(inp.expected_args[1].fields) = 2
    /\ inp.found_args = <<Arg(<<"x">>, <<"_">>), Arg(<<"y">>, <<"_">>)>>
    /\ \E i \in 1..Len(err.suggestions) :
          err.suggestions[i].parts[1].text = <<"|", "(", "x", ",", " ", "y", ")", "|">>

\* C7: found is empty, on a closure with a found span: exactly one
\* ignore-the-arguments suggestion is attached; its text is `|` + len(expected)
\* underscores joined by ", " + `|`, and it is MachineApplicable.
C7_IgnoreText ==
    (Reported /\ inp.is_closure /\ inp.found_span.some /\ Len(inp.found_args) = 0) =>
        \E i \in 1..Len(err.suggestions) :
           /\ SuggestionsSaying(IgnoreMsg) = {i}
           /\ err.suggestions[i].parts[1].text =
                 <<"|">> \o Join([k \in 1..Len(inp.expected_args) |-> <<"_">>], <<",", " ">>)
                 \o <<"|">>
           /\ err.suggestions[i].applicability = "MachineApplicable"

\* C7 witness: two expected arguments, none found: `|_, _|`.
C7_Witness ==
    /\ Reported /\ inp.is_closure /\ inp.found_span.some /\ Len(inp.found_args) = 0
    /\ Len(inp.expected_args) = 2 /\ AllFlat(inp.expected_args)
    /\ Len(err.suggestions) = 1
    /\ err.suggestions[1].parts[1].text = <<"|", "_", ",", " ", "_", "|">>

(***************************************************************************)
(* The claims on suggest_impl_trait.                                       *)
(***************************************************************************)
ImplTraitCalled == op = "suggest_impl_trait"

Collected == ReturnsVisitor(inp.body)

\* Every collected return expression has the inferred type ty.
AllOfType(ty) ==
    /\ Len(Collected) > 0
    /\ \A k \in 1..Len(Collected) : Collected[k].ty = ty

\* Every collected return expression has an inferred type implementing the trait.
AllConform ==
    \A k \in 1..Len(Collected) :
        Collected[k].ty # "none" /\ Collected[k].ty \in inp.solver.may_hold

\* The collected return expressions do not all have the same inferred type.
TypesDiffer ==
    \E j, k \in 1..Len(Collected) : Collected[j].ty # Collected[k].ty

\* The call attached the suggestion to return `impl T`, machine applicable.
SuggestsImplT ==
    \E k \in 1..Len(NewSuggestions) :
        /\ Len(NewSuggestions[k].parts) = 1
        /\ NewSuggestions[k].parts[1].span = "ret_ty"
        /\ NewSuggestions[k].parts[1].text = <<"impl ", "T">>
        /\ NewSuggestions[k].applicability = "MachineApplicable"

NoBoxing ==
    \A k \in 1..Len(NewSuggestions) :
        /\ NewSuggestions[k].msg # "return a boxed trait object instead"
        /\ \A j \in 1..Len(NewSuggestions[k].parts) :
              ~starts_with(NewSuggestions[k].parts[j].text, "Box::new(")
              /\ ~starts_with(NewSuggestions[k].parts[j].text, "Box<")

\* The stated case of C8: cause SizedReturnType, declared return type text
\* `dyn T`, all collected return expressions of one type that implements T.
SameTypeCase ==
    /\ ImplTraitCalled
    /\ inp.cause.tag = "SizedReturnType"
    /\ inp.output = "Return"
    /\ inp.ret_ty.snippet = SnippetOk(DynT)
    /\ \E ty \in inp.solver.may_hold : AllOfType(ty)

\* What the rule requires besides: the body belongs to a free function item, the
\* failing self type is a trait object, and the declared return type is a
\* trait-object type whose span overlaps the error span.
RuleSetting ==
    /\ inp.node = "ItemFn"
    /\ inp.self_ty.kind = "Dynamic"
    /\ inp.ret_ty.kind = "TraitObject"
    /\ inp.ret_ty.overlaps

\* C8 as stated: in the same-type case the rule suggests `impl T`,
\* MachineApplicable, and attaches no boxing suggestion.
C8_Original == SameTypeCase => (SuggestsImplT /\ NoBoxing)

\* C8 (amended): when the body belongs to a free function item, the failing self
\* type is a trait object, the cause is SizedReturnType, the declared return type
\* is a trait-object type overlapping the error span with text `dyn T`, and all
\* collected return expressions share one inferred type that implements T, the
\* rule returns true having suggested exactly `impl T` for the return type,
\* MachineApplicable, and attaches no boxing suggestion.
C8_ImplTraitSuggested ==
    (SameTypeCase /\ RuleSetting) =>
        (ret = "true" /\ Len(NewSuggestions) = 1 /\ SuggestsImplT /\ NoBoxing)

\* C8 witness: two return expressions of type W in a free function returning
\* `dyn T`, and the diagnostic carries the `impl T` suggestion.
C8_Witness ==
    /\ SameTypeCase /\ RuleSetting
    /\ Len(Collected) = 2
    /\ SuggestsImplT

\* The boxed suggestion: one `Box::new(<expr text>)` part per collected return
\* expression, then `Box<dyn T>` for the return type; MaybeIncorrect.
BoxedSuggestion(sugg) ==
    /\ sugg.applicability = "MaybeIncorrect"
    /\ Len(sugg.parts) = Len(Collected) + 1
    /\ \A k \in 1..Len(Collected) :
          sugg.parts[k].text = <<"Box::new(">> \o Collected[k].text.text \o <<")">>
    /\ sugg.parts[Len(Collected) + 1].span = "ret_ty"
    /\ sugg.parts[Len(Collected) + 1].text = <<"Box<">> \o DynT \o <<">">>

\* C9 as stated, within the setting the rule requires (free function item, cause
\* SizedReturnType, trait-object return type with text `dyn T` or `T`): when the
\* collected return expressions have differing inferred types, all implementing
\* T, and the trait object is object safe, the rule attaches one multi-part
\* suggestion of the boxed form, with one part more than return expressions.
C9_Original ==
    (/\ ImplTraitCalled
     /\ inp.cause.tag = "SizedReturnType" /\ inp.output = "Return" /\ RuleSetting
     /\ inp.ret_ty.snippet \in {SnippetOk(DynT), SnippetOk(<<"T">>)}
     /\ is_object_safe_of(inp.self_ty)
     /\ TypesDiffer /\ AllConform) =>
        (Len(NewSuggestions) = 1 /\ BoxedSuggestion(NewSuggestions[1]))

(***************************************************************************)
(* The claims on maybe_note_obligation_cause_for_async_await.              *)
(***************************************************************************)
AsyncDone == op = "maybe_note_obligation_cause_for_async_await" /\ pc = "done"

\* The parent subject types of the derived steps of the chain, in order from the
\* failing obligation.
AsyncChain ==
    LET links == Links(inp.cause_code)
    IN  [k \in 1..(Len(links) - 1) |-> links[k].parent_trait_ref.self_ty]

IsFrame(t) == t.kind = "Generator"

FrameFound == \E k \in 1..Len(AsyncChain) : IsFrame(AsyncChain[k])

FirstFrame == CHOOSE k \in 1..Len(AsyncChain) :
                 IsFrame(AsyncChain[k]) /\ \A j \in 1..(k - 1) : ~IsFrame(AsyncChain[j])

\* The derived steps before the first frame whose parent subject type is neither
\* a frame nor a frame witness.
PlainBeforeFrame ==
    {k \in 1..(FirstFrame - 1) : AsyncChain[k].kind \notin {"Generator", "GeneratorWitness"}}

HasOwnSubject == inp.predicate.kind = "Trait"

OwnSubject == inp.predicate.trait_ref.self_ty

FullyErased(t) == erase_regions(erase_late_bound_regions(t))

\* The interior-type table has an entry whose erased type equals the erased type t.
HasEntryFor(t) ==
    \E k \in 1..Len(inp.table) : FullyErased(inp.table[k].ty) = FullyErased(t)

TargetTypes ==
    IF PlainBeforeFrame # {}
    THEN {AsyncChain[CHOOSE k \in PlainBeforeFrame : \A j \in PlainBeforeFrame : j <= k]}
    ELSE IF HasOwnSubject THEN {OwnSubject} ELSE {}

\* The entries whose type, with free and late-bound regions erased, equals the
\* type t with its free regions erased.
EntriesFor(t) ==
    {k \in 1..Len(inp.table) : FullyErased(inp.table[k].ty) = erase_regions(t)}

AddRefCalled == pc = "done" /\ op = "suggest_add_reference_to_arg"

\* Primary message, labels, notes and suggestions are those before the call.
DiagnosticUntouched ==
    /\ err.message = inp.err0.message
    /\ err.labels = inp.err0.labels
    /\ err.children = inp.err0.children
    /\ err.suggestions = inp.err0.suggestions

FnCallDeclined ==
    /\ pc = "done" /\ op = "suggest_fn_call"
    /\ Len(NewSuggestions) = 0
    /\ \A k \in 1..Len(NewChildren) : NewChildren[k].kind # "help"

\* C11: whenever suggest_add_reference_to_arg returns false, and whenever
\* suggest_fn_call attaches neither a suggestion nor a help, the diagnostic's
\* primary message, labels, notes and suggestions are unchanged.
C11_Original ==
    /\ (AddRefCalled /\ ret = "false") => DiagnosticUntouched
    /\ FnCallDeclined => DiagnosticUntouched

\* The two ways the frame is broken: a declining add-reference call that has
\* already rewritten the message (or added its note), and a declining call
\* suggestion that has already labelled the closure.
C11_AddRefDeclinesAfterWriting ==
    ~(AddRefCalled /\ ret = "false" /\ ~DiagnosticUntouched)

C11_FnCallDeclinesAfterLabel ==
    ~(FnCallDeclined /\ ~DiagnosticUntouched)

(***************************************************************************)
(* C12, C13: snippet lookups that fail, and the fatal outcomes             *)
(***************************************************************************)
ShapesCalled == pc = "done" /\ op = "get_fn_like_arguments"

\* A snippet lookup of the call failed: a parameter pattern of the closure, or
\* a collected return expression of a rule that got as far as boxing them.
ParamSnippetFailed ==
    /\ ShapesCalled /\ inp.node.node = "Closure"
    /\ \E k \in 1..Len(inp.node.params) :
          IF inp.node.params[k].kind = "Tuple"
          THEN \E j \in 1..Len(inp.node.params[k].pats) : ~inp.node.params[k].pats[j].ok
          ELSE ~inp.node.params[k].snippet.ok

\* C12: a failed snippet lookup makes the operation decline silently; it
\* never aborts, neither in a suggestion rule nor in argument-shape extraction.
C12_Original ==
    /\ ParamSnippetFailed => ret # "abort"
    /\ (ImplTraitCalled /\ \E k \in 1..Len(Collected) : ~Collected[k].text.ok)
          => ret # "abort"

FnLikeNodes == {"Closure", "ItemFn", "ImplItemMethod", "TraitItemMethod", "Ctor"}

\* Number of declared parameters (constructor fields) of a function-like node.
DeclaredParams ==
    IF inp.node.node = "Closure" THEN Len(inp.node.params)
    ELSE IF inp.node.node = "Ctor" THEN inp.node.fields
    ELSE Len(inp.node.inputs)

\* C13: get_fn_like_arguments fails fatally for a node outside the closed
\* set, and that is the only fatal outcome of any advisor operation; inside
\* the set it returns a span and one shape per declared parameter or field.
C13_Original ==
    /\ (ShapesCalled /\ inp.node.node \notin FnLikeNodes) => ret = "abort"
    /\ (ShapesCalled /\ inp.node.node \in FnLikeNodes)
          => ret = "ok" /\ Len(locals.args) = DeclaredParams
    /\ (pc = "done" /\ ret = "abort")
          => ShapesCalled /\ inp.node.node \notin FnLikeNodes

\* What does hold of the extraction: outside the set it is fatal, and inside
\* the set it answers one shape per parameter unless a closure parameter's
\* snippet is unavailable.
C13_ShapesUnlessSnippetFails ==
    ShapesCalled =>
        IF inp.node.node \notin FnLikeNodes \/ ParamSnippetFailed
        THEN ret = "abort"
        ELSE ret = "ok" /\ Len(locals.args) = DeclaredParams

(***************************************************************************)
(* C14: the seen-types set of the walker                                   *)
(***************************************************************************)
InWalk == op = "note_obligation_cause_code" /\ pc \in {"walk", "done"}

\* Position in the chain of the cause the walker stands at.
CodePos == Len(ChainLinks) - Len(Links(code)) + 1

\* Number of derived steps the walker has carried out so far.
VisitedDerived == IF pc = "done" /\ IsDerived(code) THEN CodePos ELSE CodePos - 1

TypeSeen(ty) == \E j \in 1..Len(obligated_types) : obligated_types[j] = ty

\* The parent types of the builtin-derived links among the first k, in order.
RECURSIVE BuiltinTypes(_)
BuiltinTypes(k) ==
    IF k = 0 THEN <<>>
    ELSE IF ChainLinks[k].tag = "BuiltinDerivedObligation"
         THEN Append(BuiltinTypes(k - 1), LinkTy(k))
         ELSE BuiltinTypes(k - 1)

\* C14 as stated: after any walk the seen-types set contains the parent type
\* of every derived step visited, builtin-derived and impl-derived alike.
C14_Original ==
    Walked => \A i \in 1..VisitedDerived : TypeSeen(LinkTy(i))

\* C14 as amended: at every builtin-derived step the parent's resolved subject
\* type is added to the seen types before the recursion is decided, and the
\* walker recurses exactly when the next cause is not a derived cause whose
\* parent type is already seen; an impl-derived step adds nothing and always
\* recurses.  So the seen types are, at any point of a walk, the parent types
\* of the builtin-derived steps carried out, in order.
C14_BuiltinStepsPushAndGuard ==
    /\ [](InWalk => obligated_types = BuiltinTypes(VisitedDerived))
    /\ [][(pc = "walk" /\ code.tag = "BuiltinDerivedObligation") =>
            /\ obligated_types' =
                  Append(obligated_types,
                         resolve_vars_if_possible(inp.infcx, code.parent_trait_ref.self_ty))
            /\ (pc' = "walk") <=>
                  ~(/\ IsDerived(code.parent_code)
                    /\ \E j \in 1..Len(obligated_types') :
                          obligated_types'[j] =
                             resolve_vars_if_possible(
                                 inp.infcx, code.parent_code.parent_trait_ref.self_ty))]_vars
    /\ [][(pc = "walk" /\ code.tag = "ImplDerivedObligation") =>
            (pc' = "walk" /\ code' = code.parent_code /\ UNCHANGED obligated_types)]_vars

\* C14 witness: a returned walk over three derived links, one of them
\* impl-derived, that has recorded the two builtin-derived parent types.
C14_Witness ==
    /\ Walked /\ NumDerived = 3 /\ ~IsDerived(code)
    /\ \E i \in 1..3 : ChainLinks[i].tag = "ImplDerivedObligation"
    /\ Len(obligated_types) = 2

(***************************************************************************)
(* C15, C16: the count and the span of suggest_remove_reference            *)
(***************************************************************************)
RemoveRefCalled == pc = "done" /\ op = "suggest_remove_reference"

\* The count named by the removal suggestion.
RemovedCount == NewSuggestions[1].args[1]

\* C15: the rule tries the counts 1, 2, ... in increasing order and stops at
\* the first that satisfies the constraint: a call attaches at most one
\* suggestion, and its count is the smallest satisfying one, at most the
\* number of leading & of the snippet and at most the reference depth.
C15_SmallestCount ==
    RemoveRefCalled =>
        /\ Len(NewSuggestions) <= 1
        /\ err.children = inp.err0.children
        /\ Len(NewSuggestions) = 1 =>
              /\ SuggestsRemoving(RemovedCount)
              /\ RemovedCount \in 1..RefDepth(inp.self_ty)
              /\ RemovedCount <= LeadingRefs(inp.snippet.text)
              /\ PeelN(inp.self_ty, RemovedCount) \in inp.solver.may_hold
              /\ \A i \in 1..(RemovedCount - 1) :
                    PeelN(inp.self_ty, i) \notin inp.solver.may_hold

\* C15 witness: &&&T written `&&&x`, satisfiable with two and with three
\* levels peeled: the rule has stopped at two.
C15_Witness ==
    /\ RemoveRefCalled
    /\ RefDepth(inp.self_ty) = 3
    /\ inp.snippet = SnippetOk(<<"&", "&", "&", "x">>)
    /\ PeelN(inp.self_ty, 2) \in inp.solver.may_hold
    /\ PeelN(inp.self_ty, 3) \in inp.solver.may_hold
    /\ Len(NewSuggestions) = 1 /\ RemovedCount = 2

\* Number of & under the span the suggestion deletes.
RefsUnderSpan ==
    LET sp == NewSuggestions[1].parts[1].span
    IN  Cardinality({i \in (sp.lo + 1)..sp.hi : inp.snippet.text[i] = "&"})

\* C16: when the rule suggests removing m references, the span it proposes to
\* delete contains exactly m &, also when the snippet has more than m.
C16_Original ==
    (RemoveRefCalled /\ Len(NewSuggestions) = 1) => RefsUnderSpan = RemovedCount

\* What the span does cover: the whole leading run of & and whitespace.
C16_SpanCoversAllLeadingRefs ==
    (RemoveRefCalled /\ Len(NewSuggestions) = 1) =>
        /\ RefsUnderSpan = LeadingRefs(inp.snippet.text)
        /\ NewSuggestions[1].parts[1].text = <<>>

(***************************************************************************)
(* C17, C18, C19: suggest_add_reference_to_arg                             *)
(***************************************************************************)
\* The parent constraint as the rule words it: subject type, parent trait.
ParentConstraint ==
    [msg |-> "the trait bound is not satisfied",
     args |-> ty_to_string(inp.self_ty) \o <<inp.cause.parent_trait_ref.def_id>>]

\* The call attached the borrow suggestion: & followed by the origin snippet.
BorrowSuggested ==
    /\ Len(NewSuggestions) = 1
    /\ NewSuggestions[1].msg = "consider borrowing here"
    /\ NewSuggestions[1].parts = <<[span |-> "cause_span", text |-> <<"&">> \o inp.snippet.text]>>
    /\ NewSuggestions[1].applicability = "MaybeIncorrect"

\* C17 as stated: whenever the rule returns true it attaches the suggestion
\* & + snippet with applicability MaybeIncorrect and the primary message is
\* overwritten to name the parent constraint.
C17_Original ==
    (AddRefCalled /\ ret = "true") => (BorrowSuggested /\ err.message = ParentConstraint)

\* C17 as amended: whenever the rule returns true it attaches the suggestion
\* & + snippet with applicability MaybeIncorrect; the parent constraint
\* becomes the primary message when the trait has no custom message, and is
\* added as a note, the primary message staying as it was, when it has one.
C17_BorrowAndParentConstraint ==
    (AddRefCalled /\ ret = "true") =>
        /\ BorrowSuggested
        /\ IF inp.has_custom_message
           THEN /\ err.message = inp.err0.message
                /\ NewChildren = <<[kind |-> "note", msg |-> ParentConstraint.msg,
                                    args |-> ParentConstraint.args]>>
           ELSE /\ err.message = ParentConstraint
                /\ NewChildren = <<>>

\* C17 witness: the rule has fired on `x` for a trait with a custom message.
C17_Witness ==
    /\ AddRefCalled /\ ret = "true" /\ inp.has_custom_message
    /\ inp.snippet = SnippetOk(<<"x">>)
    /\ BorrowSuggested

\* suggest_remove_reference, run on the same obligation, attaches its suggestion.
RemoveWouldAttach ==
    Len(suggest_remove_reference(inp.err0, inp.snippet, inp.self_ty, inp.solver).suggestions)
        > Len(inp.err0.suggestions)

C19_Original ==
    (AddRefCalled /\ Len(NewSuggestions) = 1) =>
        /\ inp.cause.tag = "ImplDerivedObligation"
        /\ ~IsDerived(inp.cause.parent_code)
        /\ inp.points_at_arg
        /\ inp.must_hold

\* C19 as amended: the borrow suggestion is attached only when the
\* obligation's own cause is impl-derived (whatever its parent cause is), the
\* obligation points at an argument, the parent constraint of that step holds
\* for an immutable reference to the subject type, and the origin snippet is
\* available and does not start with &.
C19_AttachesOnlyWhenGuarded ==
    (AddRefCalled /\ Len(NewSuggestions) = 1) =>
        /\ ret = "true"
        /\ inp.cause.tag = "ImplDerivedObligation"
        /\ inp.points_at_arg
        /\ inp.must_hold
        /\ inp.snippet.ok
        /\ ~starts_with(inp.snippet.text, "&")

\* C19 witness: attached through a chain of two impl-derived steps.
C19_Witness ==
    /\ AddRefCalled /\ Len(NewSuggestions) = 1
    /\ IsDerived(inp.cause.parent_code)

(***************************************************************************)
(* C20: suggest_change_mut                                                 *)
(***************************************************************************)
ChangeMutCalled == pc = "done" /\ op = "suggest_change_mut"

\* The edit that replaces the leading references by a mutable borrow.
MutEditOnly ==
    /\ Len(NewSuggestions) = 1
    /\ NewSuggestions[1].msg = "consider changing this borrow's mutability"
    /\ NewSuggestions[1].parts[1].text = <<"&", "mut", " ">>
    /\ NewSuggestions[1].parts[1].span.hi = PrefixLen(inp.snippet.text, {" ", "&"})
    /\ NewSuggestions[1].applicability = "MachineApplicable"
    /\ NewChildren = <<>>

\* The note that compares the two mutabilities.
MutNoteOnly ==
    /\ Len(NewSuggestions) = 0
    /\ Len(NewChildren) = 1
    /\ NewChildren[1].kind = "note"
    /\ NewChildren[1].msg = "is implemented for, but not for"

EditCase ==
    /\ inp.points_at_arg /\ inp.self_ty.mutbl = "Not"
    /\ inp.snippet.ok /\ LeadingRefs(inp.snippet.text) >= 1

\* C20 as stated: nothing is attached when the trait reference has unresolved
\* inference variables or the opposite mutability does not satisfy the
\* constraint; when the subject is a reference and the opposite mutability
\* satisfies it, exactly one of the edit (in the edit case) and the note
\* (otherwise) is attached.
C20_Original ==
    ChangeMutCalled =>
        /\ (inp.has_infer_types \/ ~inp.must_apply) => err = inp.err0
        /\ (inp.self_ty.kind = "Ref" /\ inp.must_apply /\ ~inp.has_infer_types) =>
              IF EditCase THEN MutEditOnly ELSE MutNoteOnly

\* C20 as amended: the same, and nothing is attached either when the origin
\* snippet is unavailable or when the first character after its leading
\* references and whitespace starts a lifetime; the edit or the note is
\* attached only outside these cases.
C20_EditOrNote ==
    ChangeMutCalled =>
        /\ (inp.has_infer_types \/ ~inp.must_apply) => err = inp.err0
        /\ (~inp.snippet.ok \/ LifetimeAfterRefs(inp.snippet.text)) => err = inp.err0
        /\ (/\ inp.self_ty.kind = "Ref" /\ inp.must_apply /\ ~inp.has_infer_types
            /\ inp.snippet.ok /\ ~LifetimeAfterRefs(inp.snippet.text)) =>
              IF EditCase THEN MutEditOnly ELSE MutNoteOnly

\* C20 witnesses: the edit on `&x` of type &T at an argument; the note comes
\* with the mutable reference.
C20_Witness ==
    /\ ChangeMutCalled /\ inp.self_ty.kind = "Ref" /\ inp.must_apply
    /\ ~inp.has_infer_types /\ inp.snippet = SnippetOk(<<"&", "x">>)
    /\ EditCase /\ MutEditOnly

(***************************************************************************)
(* C21, C22: what suggest_impl_trait clears, and untyped return expressions *)
(***************************************************************************)
ImplTraitReturned == pc = "done" /\ ImplTraitCalled

CodeAndMessageReplaced ==
    /\ err.code = "E0746"
    /\ err.message = [msg |-> "return type cannot have an unboxed trait object", args |-> <<>>]

\* No child of the diagnostic was attached before the call.
NoEarlierChild ==
    \A k \in 1..Len(err.children) :
        \A j \in 1..Len(inp.err0.children) : err.children[k] # inp.err0.children[j]

\* No suggestion of the diagnostic was attached before the call.
NoEarlierSuggestion ==
    \A k \in 1..Len(err.suggestions) :
        \A j \in 1..Len(inp.err0.suggestions) : err.suggestions[k] # inp.err0.suggestions[j]

\* C21 as stated: whenever the rule returns true the code and the primary
\* message are replaced and every child note or suggestion attached before the
\* call is cleared; whenever it returns false, code, message and children are
\* unchanged.
C21_Original ==
    ImplTraitReturned =>
        /\ ret = "true" => (CodeAndMessageReplaced /\ NoEarlierChild /\ NoEarlierSuggestion)
        /\ ret = "false" =>
              /\ err.code = inp.err0.code
              /\ err.message = inp.err0.message
              /\ err.children = inp.err0.children

\* C21 as amended: whenever the rule returns true the code and the primary
\* message are replaced and every child note or help attached before the call
\* is cleared, while the suggestions and labels attached before the call are
\* kept, in front of the rule's own; whenever it returns false the diagnostic
\* is unchanged.
C21_ChildrenClearedSuggestionsKept ==
    ImplTraitReturned =>
        /\ ret = "true" =>
              /\ CodeAndMessageReplaced
              /\ NoEarlierChild
              /\ Len(err.children) >= 1
              /\ SubSeq(err.suggestions, 1, Len(inp.err0.suggestions)) = inp.err0.suggestions
              /\ err.labels = inp.err0.labels
        /\ ret = "false" => err = inp.err0

\* C21 witness: the rule has applied to a diagnostic that carried a note and a
\* suggestion; the suggestion is still its first.
C21_Witness ==
    /\ ImplTraitReturned /\ ret = "true"
    /\ Len(inp.err0.children) = 1 /\ Len(inp.err0.suggestions) = 1
    /\ err.suggestions[1] = inp.err0.suggestions[1]
    /\ NoEarlierChild

\* The collected return expressions that have an inferred type.
TypedRets == SelectSeq(Collected, LAMBDA x : x.ty # "none")

SomeUntyped == \E k \in 1..Len(Collected) : Collected[k].ty = "none"

\* Every guard in front of the return expressions has passed.
ImplTraitGuardsPass ==
    /\ peel_derives(inp.cause).tag = "SizedReturnType"
    /\ inp.output = "Return"
    /\ RuleSetting
    /\ inp.ret_ty.snippet.ok

\* The call attached the suggestion to return an impl type.
ImplSuggested ==
    \E k \in 1..Len(NewSuggestions) :
        NewSuggestions[k].msg
            = "return impl instead, as all return paths are of type, which implements"

\* C22 as stated: if some collected return expression has no inferred type the
\* rule attaches nothing and returns false.
C22_Original ==
    (ImplTraitReturned /\ SomeUntyped) => (ret = "false" /\ err = inp.err0)

\* C22 as amended: return expressions without an inferred type are skipped.
\* The rule applies, its other guards passed, exactly when at least one
\* collected return expression has an inferred type and every typed one
\* conforms to the trait of a trait-object return type; the same-type
\* decision is taken over the typed expressions only.
C22_UntypedReturnsSkipped ==
    (ImplTraitReturned /\ ImplTraitGuardsPass) =>
        /\ ret # "false" <=>
              /\ Len(TypedRets) >= 1
              /\ inp.ret_ty.node_type = "Dynamic" =>
                    \A k \in 1..Len(TypedRets) : TypedRets[k].ty \in inp.solver.may_hold
        /\ ImplSuggested <=>
              /\ ret = "true"
              /\ \A j, k \in 1..Len(TypedRets) : TypedRets[j].ty = TypedRets[k].ty

\* C22 witness: one typed and one untyped return expression, and the rule has
\* suggested the impl type.
C22_Witness ==
    /\ ImplTraitReturned /\ SomeUntyped /\ Len(Collected) = 2 /\ Len(TypedRets) = 1
    /\ ret = "true" /\ ImplSuggested

(***************************************************************************)
(* C23, C24, C25: the counts and the suggestions of the mismatch report    *)
(***************************************************************************)
ReportDone == pc = "done" /\ Reported

\* The count of one side as the claim words it.
CountText(side, other) ==
    IF Len(side) = 1 /\ side[1].kind = "Tuple"
    THEN <<"a single ", ToString(Len(side[1].fields)), "-tuple as argument">>
    ELSE <<ToString(Len(side)), " ">>
         \o (IF Len(other) = 1 /\ other[1].kind = "Tuple" /\ Len(side) > 1
             THEN <<"distinct ">> ELSE <<>>)
         \o <<"argument">>
         \o (IF Len(side) # 1 THEN <<"s">> ELSE <<>>)

\* C23: each side's count is rendered as a single K-tuple exactly when that
\* side is one tuple shape of arity K, otherwise as N argument(s) with the s
\* exactly when N is not 1 and with distinct exactly when the other side is a
\* single tuple and N > 1; in the message and in both labels.
C23_CountsRendered ==
    ReportDone =>
        LET expected_text == CountText(inp.expected_args, inp.found_args)
            found_text == CountText(inp.found_args, inp.expected_args)
        IN  /\ err.message.args[2] = expected_text
            /\ err.message.args[3] = found_text
            /\ err.labels[1].args[2] = expected_text
            /\ inp.found_span.some =>
                  (Len(err.labels) = 2 /\ err.labels[2].args = <<found_text>>)

\* C23 witness: a single 2-tuple expected, two arguments found.
C23_Witness ==
    /\ ReportDone /\ inp.found_span.some
    /\ IsSingleTuple(inp.expected_args) /\ Len(inp.expected_args[1].fields) = 2
    /\ Len(inp.found_args) = 2
    /\ err.message.args[2] = <<"a single ", "2", "-tuple as argument">>
    /\ err.message.args[3] = <<"2", " ", "distinct ", "argument", "s">>

DestructureMsg == "change the closure to take multiple arguments instead of a single tuple"

\* C24: with a found span and found a single tuple whose arity is the number
\* of expected arguments, the report suggests the tuple's field names between
\* pipes, joined by ", "; with another arity, or without a found span, it
\* attaches no destructuring suggestion.
C24_Destructure ==
    ReportDone =>
        IF /\ inp.found_span.some /\ IsSingleTuple(inp.found_args)
           /\ Len(inp.found_args[1].fields) = Len(inp.expected_args)
        THEN \E i \in 1..Len(err.suggestions) :
                /\ SuggestionsSaying(DestructureMsg) = {i}
                /\ err.suggestions[i].parts[1].text =
                      <<"|">>
                      \o Join([k \in 1..Len(inp.found_args[1].fields) |->
                                  inp.found_args[1].fields[k].name], <<",", " ">>)
                      \o <<"|">>
        ELSE SuggestionsSaying(DestructureMsg) = {}

\* C24 witness: found is the tuple (a, b), two arguments expected.
C24_Witness ==
    /\ ReportDone /\ inp.found_span.some /\ IsSingleTuple(inp.found_args)
    /\ Len(inp.found_args[1].fields) = 2 /\ Len(inp.expected_args) = 2
    /\ \E i \in 1..Len(err.suggestions) :
          err.suggestions[i].parts[1].text = <<"|", "a", ",", " ", "b", "|">>

\* C25 as stated: a report carries at most one suggested edit.
C25_Original == ReportDone => Len(err.suggestions) <= 1

\* Expected is a single 0-tuple and nothing is found.
UnitExpectedNothingFound ==
    /\ IsSingleTuple(inp.expected_args) /\ Len(inp.expected_args[1].fields) = 0
    /\ Len(inp.found_args) = 0

\* Both sides are a single 1-tuple.
BothSingleOneTuple ==
    /\ IsSingleTuple(inp.expected_args) /\ Len(inp.expected_args[1].fields) = 1
    /\ IsSingleTuple(inp.found_args) /\ Len(inp.found_args[1].fields) = 1

\* C25 as amended: a report carries at most two suggested edits, never the
\* ignoring and the destructuring one together, and two exactly when it is
\* about a closure with a found span and either expected is a single 0-tuple
\* with nothing found (ignore and re-tuple) or both sides are a single 1-tuple
\* (destructure and re-tuple).
C25_TwoEditsInTwoCases ==
    ReportDone =>
        /\ Len(err.suggestions) <= 2
        /\ SuggestionsSaying(IgnoreMsg) = {} \/ SuggestionsSaying(DestructureMsg) = {}
        /\ Len(err.suggestions) = 2 <=>
              /\ inp.is_closure /\ inp.found_span.some
              /\ UnitExpectedNothingFound \/ BothSingleOneTuple
        /\ Len(err.suggestions) = 2 => SuggestionsSaying(RetupleMsg) # {}

\* C25 witness: a closure without parameters where a single 0-tuple is
\* expected gets the ignoring and the re-tupling edit.
C25_Witness ==
    /\ ReportDone /\ inp.is_closure /\ inp.found_span.some /\ UnitExpectedNothingFound
    /\ Len(err.suggestions) = 2
    /\ err.suggestions[1].msg = IgnoreMsg /\ err.suggestions[2].msg = RetupleMsg

(***************************************************************************)
(* C26, C27, C30: the frames, the target type and the unchecked            *)
(* extractions of the capture analyzer                                     *)
(***************************************************************************)
InAsync == op = "maybe_note_obligation_cause_for_async_await"

\* The frames among the derived steps the scan has gone through, in order.
FramesSeen == SelectSeq(SubSeq(AsyncChain, 1, CodePos - 1), IsFrame)

\* C26: the capturing frame is the first suspension frame met and the last
\* frame the final one met; once set, the first frame is not overwritten by a
\* later step, the last frame is always the most recent frame seen, and with
\* exactly one frame in the chain the two are equal.
C26_FirstAndLastFrame ==
    /\ [](InAsync =>
            /\ locals.generator =
                  IF FramesSeen = <<>> THEN <<>> ELSE <<FramesSeen[1].did>>
            /\ locals.last_generator =
                  IF FramesSeen = <<>> THEN <<>> ELSE <<FramesSeen[Len(FramesSeen)].did>>)
    /\ [][(InAsync /\ pc = "scan" /\ locals.generator # <<>>)
            => locals'.generator = locals.generator]_vars
    /\ []((AsyncDone /\ Len(FramesSeen) = 1) =>
            (locals.generator = locals.last_generator /\ locals.generator # <<>>))

\* C26 witness: a chain with two different frames has been scanned.
C26_Witness ==
    /\ AsyncDone /\ Len(FramesSeen) = 2
    /\ locals.generator = <<"g1">> /\ locals.last_generator = <<"g2">>

\* The scan is over and the interior-type table of a local frame is consulted.
TargetCompared ==
    /\ AsyncDone /\ FrameFound /\ inp.local /\ locals.target_ty # <<>>

C30_ExtractionsSucceed ==
    /\ (InAsync /\ pc \in {"lookup", "done"}) =>
          /\ ~IsDerived(code)
          /\ code = ChainLinks[Len(ChainLinks)]
          /\ \A k \in 1..(Len(ChainLinks) - 1) : IsDerived(ChainLinks[k])
    /\ (AsyncDone /\ ret = "true") =>
          /\ Len(inp.table) >= 1
          /\ find_interior(inp.table, locals.target_ty[1]) \in 1..Len(inp.table)
          /\ Len(err.children) > Len(inp.err0.children)

\* C30 witness: the note has been written after a walk over two derived steps,
\* from a table of one entry.
C30_Witness ==
    /\ AsyncDone /\ ret = "true" /\ Len(ChainLinks) = 3 /\ Len(inp.table) = 1
    /\ ~IsDerived(code)

(***************************************************************************)
(* C28, C29: suggest_restricting_param_bound                               *)
(***************************************************************************)
InRestrict == op = "suggest_restricting_param_bound"

RestrictDone == InRestrict /\ pc = "done"

\* The labels the call attached.
NewLabels == SubSeq(err.labels, Len(inp.err0.labels) + 1, Len(err.labels))

\* The call walked: its subject is a type parameter or an associated type.
RestrictWalks == InRestrict /\ inp.self_ty.kind \in {"Param", "Projection"}

\* C28 (as claimed): suggest_restricting_param_bound never attaches a
\* suggestion whose target span comes from a macro expansion or a desugaring,
\* on the Self path, the associated-type path and the type-parameter path.
C28_Original ==
    InRestrict =>
        \A k \in 1..Len(NewSuggestions) :
            \A j \in 1..Len(NewSuggestions[k].parts) :
                NewSuggestions[k].parts[j].span.expansion = "none"

\* C28 (what holds): on the Self path and the associated-type path no
\* suggestion has a target span from an expansion; the type-parameter path
\* attaches its suggestion whatever the span comes from.
C28_OnlyWhereClausePathsChecked ==
    (RestrictDone
       /\ (inp.self_ty.kind = "Projection" \/ inp.self_ty.name = <<"Self">>)) =>
        \A k \in 1..Len(NewSuggestions) :
            NewSuggestions[k].parts[1].span.expansion = "none"

\* The k-th enclosing item is one the subject of the call can be restricted
\* at: a trait method for Self, an item of the associated-type arm for an
\* associated type, an item with generics that declares the parameter for a
\* type parameter.
MatchesAt(k) ==
    LET node == inp.chain[k]
    IN  \/ /\ inp.self_ty.kind = "Param" /\ inp.self_ty.name = <<"Self">>
           /\ node.kind = "TraitItemMethod"
        \/ /\ inp.self_ty.kind = "Projection"
           /\ node.kind \in ProjectionArmKinds
        \/ /\ inp.self_ty.kind = "Param"
           /\ node.kind \in ParamArmKinds
           /\ node.generics.param # "absent"

Matching == {k \in 1..Len(inp.chain) : MatchesAt(k)}

FirstMatch == CHOOSE k \in Matching : \A j \in Matching : k <= j

\* What the call attached, suggestions and labels together.
AttachedCount == Len(NewSuggestions) + Len(NewLabels)

\* The call changed nothing of the diagnostic but its suggestions and labels.
OnlyAttached ==
    /\ err.code = inp.err0.code /\ err.message = inp.err0.message
    /\ err.children = inp.err0.children
    /\ SubSeq(err.suggestions, 1, Len(inp.err0.suggestions)) = inp.err0.suggestions
    /\ SubSeq(err.labels, 1, Len(inp.err0.labels)) = inp.err0.labels

\* C29 (as claimed): the walk stops at the first declaration where it attaches
\* a suggestion or label, or at the crate root.
C29_Original ==
    (RestrictDone /\ RestrictWalks) =>
        \/ AttachedCount = 1
        \/ node_at(inp.chain, locals.hir_id).kind = "Crate"

\* The where-clause paths (Self, associated type) at an item whose generics
\* come from a macro expansion or a desugaring: the walk stops, nothing attached.
StopsSilently(k) ==
    /\ inp.self_ty.kind = "Projection" \/ inp.self_ty.name = <<"Self">>
    /\ inp.chain[k].generics.expansion # "none"

\* C29 (amended): the walk goes upward from the body and stops at the first
\* enclosing declaration that matches the subject, or at the crate root.  It
\* attaches at most one suggestion or label per call; nothing if no enclosing
\* declaration matches; one at the first matching declaration, on that
\* declaration's own generics, except that on the Self and associated-type
\* paths it attaches nothing when the where-clause span of that declaration
\* comes from an expansion.  For Self with a trait method as the nearest
\* enclosing item it is that method's where-clause that is restricted.  Every
\* walk that starts ends.
C29_StopsAtFirstMatch ==
    /\ [](InRestrict => (AttachedCount <= 1 /\ OnlyAttached))
    /\ []((InRestrict /\ pc = "climb") =>
            /\ AttachedCount = 0
            /\ \A k \in 1..(locals.hir_id - 1) : k <= Len(inp.chain) /\ ~MatchesAt(k))
    /\ []((RestrictDone /\ RestrictWalks /\ Matching = {}) =>
            /\ AttachedCount = 0
            /\ locals.hir_id = Len(inp.chain) + 1)
    /\ []((RestrictDone /\ RestrictWalks /\ Matching # {}) =>
            /\ locals.hir_id = FirstMatch
            /\ AttachedCount = IF StopsSilently(FirstMatch) THEN 0 ELSE 1
            /\ \A k \in 1..Len(NewSuggestions) :
                  NewSuggestions[k].parts[1].span.owner = FirstMatch
            /\ \A k \in 1..Len(NewLabels) : NewLabels[k].span.owner = FirstMatch)
    /\ []((RestrictDone /\ inp.self_ty.name = <<"Self">> /\ Len(inp.chain) >= 1
             /\ inp.chain[1].kind = "TraitItemMethod"
             /\ inp.chain[1].generics.expansion = "none") =>
            /\ Len(NewSuggestions) = 1
            /\ NewSuggestions[1].parts[1].span
                  = [base |-> "where_clause_hi", owner |-> 1, expansion |-> "none"]
            /\ NewSuggestions[1].args = <<"Self">>)
    /\ [](RestrictDone /\ ~RestrictWalks => err = inp.err0)
    /\ ((InRestrict /\ pc = "climb") ~> RestrictDone)

\* A trait method inside a trait, subject Self: the method's where-clause is
\* restricted and the walk never reaches the trait.
C29_Witness ==
    /\ RestrictDone /\ inp.self_ty.name = <<"Self">>
    /\ Len(inp.chain) = 2
    /\ inp.chain[1].kind = "TraitItemMethod" /\ inp.chain[2].kind = "ItemTrait"
    /\ locals.hir_id = 1
    /\ Len(NewSuggestions) = 1
    /\ NewSuggestions[1].parts[1].span.owner = 1
====
